---- MODULE Spec2Model ----
(***************************************************************************)
(* Student management dashboard: the persistence adapter                   *)
(* (lib/student-storage.ts), the dashboard controller (app/page.tsx), the  *)
(* record editor (components/student-form.tsx), the record browser         *)
(* (components/student-list.tsx) and the event-loop demonstration          *)
(* (components/async-patterns-demo.tsx).                                   *)
(*                                                                         *)
(* JavaScript strings are sequences of one-character strings, JavaScript   *)
(* values are tagged records, and JSON.stringify / JSON.parse work on the  *)
(* characters of the JSON text, so that what is written to the store and   *)
(* what is read back are computed, not assumed.                            *)
(***************************************************************************)
EXTENDS Integers, Sequences, FiniteSets, TLC

\* the persistence adapter and its medium
VARIABLES
    hasWindow,   \* typeof window !== "undefined"
    storage,     \* localStorage item under STORAGE_KEY: Null when absent, else a string
    last,        \* the last call of the persistence adapter and its completion
    saved        \* the record set of the last successful save, while it is what the store holds

\* the dashboard controller (StudentDashboard)
VARIABLES
    loading,         \* useState(true)
    error,           \* useState<string | null>(null): NoError for null
    students,        \* useState<Student[]>([])
    courses,         \* useState<Course[]>([]): the names of the courses
    editingStudent,  \* useState<Student | null>(null)
    activeTab,       \* useLocalStorage("student-dashboard-tab", "list")
    now,             \* the last value Date.now() returned
    lastOp,          \* the last handler of the controller that ran, with what it was given
    mutations,       \* how many create, update and delete operations ran
    quotaExceeded    \* whether localStorage.setItem throws for the dashboard

\* the list of the dashboard (StudentList)
VARIABLES
    searchTerm,      \* useState("")
    statusFilter,    \* useState<string>("all")
    courseFilter,    \* useState<string>("all")
    viewMode         \* useState<"table" | "cards">("table")

\* the record editor (StudentForm)
VARIABLES
    initialData,            \* the initialData prop: Null when a record is created
    formData,               \* useState({name, email, course, profileImage, status})
    errors,                 \* useState<FormErrors>({})
    isSubmitting,           \* useState(false)
    isValidatingEmail,      \* useState(false)
    emailValidationResult,  \* useState<boolean | null>(null): "null", "true" or "false"
    imagePreview,           \* useState<string | null>(null)
    timeoutId,              \* the timer the cleanup of the debounce effect clears
    timers,                 \* the timers set by setTimeout that are pending
    validations,            \* the calls of mockApiService.validateEmail not yet resolved
    submission,             \* the call of the onSubmit prop, and whether it is settled
    fileInput,              \* the file selected in <input type="file">: Null when none
    readers                 \* the files whose FileReader has not yet loaded

\* the async patterns demo (AsyncPatternsDemo), the console and the event loop
VARIABLES
    logs,         \* useState<LogEntry[]>([]): the messages, in the order of addLog
    isRunning,    \* useState(false)
    consoleLog,   \* what console.log of the dashboard has written
    callStack,    \* the statements the running task has still to execute
    microtasks,   \* the microtask queue: the callbacks, oldest first
    macrotasks    \* the timers set by setTimeout that are pending, oldest first

adapterVars == <<hasWindow, storage, last, saved>>
demoVars == <<logs, isRunning, consoleLog, callStack, microtasks, macrotasks>>
listVars == <<searchTerm, statusFilter, courseFilter, viewMode>>
controllerVars ==
    <<loading, error, students, courses, editingStudent, activeTab, now, lastOp, mutations,
      quotaExceeded, listVars>>
editorVars ==
    <<initialData, formData, errors, isSubmitting, isValidatingEmail, emailValidationResult,
      imagePreview, timeoutId, timers, validations, submission, fileInput, readers>>
imageVars == <<fileInput, readers>>
vars == <<adapterVars, controllerVars, editorVars, demoVars>>

-----------------------------------------------------------------------------
(* JavaScript values *)

Undefined == [k |-> "undef"]
Null == [k |-> "null"]
Bool(b) == [k |-> "bool", v |-> b]
Num(n) == [k |-> "num", v |-> n]
Str(s) == [k |-> "str", v |-> s]
Arr(es) == [k |-> "arr", v |-> es]
Obj(ps) == [k |-> "obj", v |-> ps]
Prop(key, val) == [key |-> key, val |-> val]

\* Array.isArray(v)
IsArray(v) == v.k = "arr"

\* !v
Falsy(v) ==
    \/ v.k \in {"undef", "null"}
    \/ v.k = "bool" /\ ~v.v
    \/ v.k = "num" /\ v.v = 0
    \/ v.k = "str" /\ v.v = <<>>

HasKey(o, key) == \E i \in 1..Len(o.v) : o.v[i].key = key

\* o[key]: the value of the own property, undefined when there is none
Get(o, key) ==
    IF HasKey(o, key)
    THEN o.v[CHOOSE i \in 1..Len(o.v) : o.v[i].key = key].val
    ELSE Undefined

\* o[key] = val on an ordinary object: an existing key keeps its position
ObjSet(o, key, val) ==
    IF HasKey(o, key)
    THEN Obj([i \in 1..Len(o.v) |-> IF o.v[i].key = key THEN Prop(key, val) ELSE o.v[i]])
    ELSE Obj(Append(o.v, Prop(key, val)))

RECURSIVE Spread(_, _)
\* { ...target, ...source }: the own properties of source, in order, set on target
Spread(target, ps) ==
    IF ps = <<>> THEN target
    ELSE Spread(ObjSet(target, Head(ps).key, Head(ps).val), Tail(ps))

-----------------------------------------------------------------------------
(* Completion of a call: a returned value or a thrown exception *)

Return(v) == [type |-> "return", value |-> v]
Throw == [type |-> "throw", value |-> Undefined]

-----------------------------------------------------------------------------
(* JSON.stringify *)

Digits == <<"0", "1", "2", "3", "4", "5", "6", "7", "8", "9">>

RECURSIVE NumberToString(_)
\* Number.prototype.toString of a non-negative integer
NumberToString(n) ==
    IF n < 10 THEN <<Digits[n + 1]>>
    ELSE NumberToString(n \div 10) \o <<Digits[(n % 10) + 1]>>

\* a serializer that writes every character as it is
EscapeChar_None(c) == <<c>>

\* QuoteJSONString, one character: the quote, the backslash and the control
\* characters are escaped
EscapeChar(c) ==
    CASE c = "\"" -> <<"\\", "\"">>
      [] c = "\\" -> <<"\\", "\\">>
      [] c = "\n" -> <<"\\", "n">>
      [] c = "\t" -> <<"\\", "t">>
      [] OTHER -> <<c>>

RECURSIVE EscapeChars(_)
EscapeChars(s) ==
    IF s = <<>> THEN <<>> ELSE EscapeChar(Head(s)) \o EscapeChars(Tail(s))

QuoteJSONString(s) == <<"\"">> \o EscapeChars(s) \o <<"\"">>

RECURSIVE SerializeJSONProperty(_), SerializeJSONArray(_, _), SerializeJSONObject(_, _)
\* the JSON text of a value other than undefined
SerializeJSONProperty(v) ==
    CASE v.k = "null" -> <<"n", "u", "l", "l">>
      [] v.k = "bool" -> IF v.v THEN <<"t", "r", "u", "e">> ELSE <<"f", "a", "l", "s", "e">>
      [] v.k = "num" -> NumberToString(v.v)
      [] v.k = "str" -> QuoteJSONString(v.v)
      [] v.k = "arr" -> <<"[">> \o SerializeJSONArray(v.v, TRUE) \o <<"]">>
      [] v.k = "obj" -> <<"{">> \o SerializeJSONObject(v.v, TRUE) \o <<"}">>

\* the elements, comma separated; an undefined element is written as null
SerializeJSONArray(es, first) ==
    IF es = <<>> THEN <<>>
    ELSE (IF first THEN <<>> ELSE <<",">>)
         \o (IF Head(es).k = "undef" THEN <<"n", "u", "l", "l">>
             ELSE SerializeJSONProperty(Head(es)))
         \o SerializeJSONArray(Tail(es), FALSE)

\* the members, comma separated; a property whose value is undefined is left out
SerializeJSONObject(ps, first) ==
    IF ps = <<>> THEN <<>>
    ELSE IF Head(ps).val.k = "undef" THEN SerializeJSONObject(Tail(ps), first)
    ELSE (IF first THEN <<>> ELSE <<",">>)
         \o QuoteJSONString(Head(ps).key) \o <<":">> \o SerializeJSONProperty(Head(ps).val)
         \o SerializeJSONObject(Tail(ps), FALSE)

\* JSON.stringify(value) of a value other than undefined
JSON_stringify(v) == SerializeJSONProperty(v)


-----------------------------------------------------------------------------
(* JSON.parse *)

IsWhitespace(c) == c \in {" ", "\t", "\n", "\r"}
IsDigit(c) == c \in {"0", "1", "2", "3", "4", "5", "6", "7", "8", "9"}
DigitValue(c) == CHOOSE d \in 0..9 : Digits[d + 1] = c

\* the parser's result: a value and the index after it, or a syntax error
Parsed(v, i) == [ok |-> TRUE, val |-> v, i |-> i]
SyntaxError == [ok |-> FALSE, val |-> Undefined, i |-> 0]

RECURSIVE SkipWhitespace(_, _)
SkipWhitespace(t, i) ==
    IF i <= Len(t) /\ IsWhitespace(t[i]) THEN SkipWhitespace(t, i + 1) ELSE i

\* does the text hold the word w at index i
HasWord(t, i, w) == i + Len(w) - 1 <= Len(t) /\ SubSeq(t, i, i + Len(w) - 1) = w

RECURSIVE ParseString(_, _, _)
\* the characters of a string literal after its opening quote
ParseString(t, i, acc) ==
    IF i > Len(t) THEN SyntaxError
    ELSE IF t[i] = "\"" THEN Parsed(Str(acc), i + 1)
    ELSE IF t[i] = "\\" THEN
        IF i + 1 > Len(t) THEN SyntaxError
        ELSE CASE t[i + 1] = "\"" -> ParseString(t, i + 2, Append(acc, "\""))
               [] t[i + 1] = "\\" -> ParseString(t, i + 2, Append(acc, "\\"))
               [] t[i + 1] = "/" -> ParseString(t, i + 2, Append(acc, "/"))
               [] t[i + 1] = "n" -> ParseString(t, i + 2, Append(acc, "\n"))
               [] t[i + 1] = "t" -> ParseString(t, i + 2, Append(acc, "\t"))
               [] OTHER -> SyntaxError
    ELSE IF t[i] \in {"\n", "\t", "\r"} THEN SyntaxError
    ELSE ParseString(t, i + 1, Append(acc, t[i]))

RECURSIVE ParseDigits(_, _, _)
ParseDigits(t, i, n) ==
    IF i <= Len(t) /\ IsDigit(t[i]) THEN ParseDigits(t, i + 1, 10 * n + DigitValue(t[i]))
    ELSE Parsed(Num(n), i)

\* a non-negative integer literal; a leading zero ends the number
ParseNumber(t, i) ==
    IF t[i] = "0" THEN Parsed(Num(0), i + 1) ELSE ParseDigits(t, i, 0)

RECURSIVE ParseValue(_, _), ParseElements(_, _, _), ParseMembers(_, _, _)
ParseValue(t, i0) ==
    LET i == SkipWhitespace(t, i0) IN
    IF i > Len(t) THEN SyntaxError
    ELSE IF t[i] = "[" THEN
        LET j == SkipWhitespace(t, i + 1) IN
        IF j <= Len(t) /\ t[j] = "]" THEN Parsed(Arr(<<>>), j + 1)
        ELSE ParseElements(t, j, <<>>)
    ELSE IF t[i] = "{" THEN
        LET j == SkipWhitespace(t, i + 1) IN
        IF j <= Len(t) /\ t[j] = "}" THEN Parsed(Obj(<<>>), j + 1)
        ELSE ParseMembers(t, j, Obj(<<>>))
    ELSE IF t[i] = "\"" THEN ParseString(t, i + 1, <<>>)
    ELSE IF IsDigit(t[i]) THEN ParseNumber(t, i)
    ELSE IF HasWord(t, i, <<"n", "u", "l", "l">>) THEN Parsed(Null, i + 4)
    ELSE IF HasWord(t, i, <<"t", "r", "u", "e">>) THEN Parsed(Bool(TRUE), i + 4)
    ELSE IF HasWord(t, i, <<"f", "a", "l", "s", "e">>) THEN Parsed(Bool(FALSE), i + 5)
    ELSE SyntaxError

\* the elements of an array after "[" or ",": a value, then "," or "]"
ParseElements(t, i, acc) ==
    LET e == ParseValue(t, i) IN
    IF ~e.ok THEN SyntaxError
    ELSE LET j == SkipWhitespace(t, e.i) IN
         IF j > Len(t) THEN SyntaxError
         ELSE IF t[j] = "," THEN ParseElements(t, j + 1, Append(acc, e.val))
         ELSE IF t[j] = "]" THEN Parsed(Arr(Append(acc, e.val)), j + 1)
         ELSE SyntaxError

\* the members of an object after "{" or ",": a key, ":", a value, then "," or "}";
\* a repeated key keeps its first position and takes the last value
ParseMembers(t, i0, o) ==
    LET i == SkipWhitespace(t, i0) IN
    IF i > Len(t) \/ t[i] # "\"" THEN SyntaxError
    ELSE LET key == ParseString(t, i + 1, <<>>) IN
         IF ~key.ok THEN SyntaxError
         ELSE LET c == SkipWhitespace(t, key.i) IN
              IF c > Len(t) \/ t[c] # ":" THEN SyntaxError
              ELSE LET m == ParseValue(t, c + 1) IN
                   IF ~m.ok THEN SyntaxError
                   ELSE LET j == SkipWhitespace(t, m.i)
                            next == ObjSet(o, key.val.v, m.val)
                        IN  IF j > Len(t) THEN SyntaxError
                            ELSE IF t[j] = "," THEN ParseMembers(t, j + 1, next)
                            ELSE IF t[j] = "}" THEN Parsed(next, j + 1)
                            ELSE SyntaxError

\* JSON.parse(text): the value, or a thrown SyntaxError when the text is not
\* one JSON value with nothing but whitespace around it
JSON_parse(t) ==
    LET r == ParseValue(t, 1) IN
    IF r.ok /\ SkipWhitespace(t, r.i) > Len(t) THEN Return(r.val) ELSE Throw

-----------------------------------------------------------------------------
(* The Student record (types/student.ts) *)

\* the property names of a Student
K == [id |-> <<"i", "d">>,
      name |-> <<"n", "a", "m", "e">>,
      email |-> <<"e", "m", "a", "i", "l">>,
      course |-> <<"c", "o", "u", "r", "s", "e">>,
      profileImage |-> <<"p", "r", "o", "f", "i", "l", "e", "I", "m", "a", "g", "e">>,
      enrollmentDate |-> <<"e", "n", "r", "o", "l", "l", "m", "e", "n", "t", "D", "a", "t", "e">>,
      status |-> <<"s", "t", "a", "t", "u", "s">>]

\* the values of Student.status
Status == [active |-> <<"a", "c", "t", "i", "v", "e">>,
           inactive |-> <<"i", "n", "a", "c", "t", "i", "v", "e">>,
           graduated |-> <<"g", "r", "a", "d", "u", "a", "t", "e", "d">>]

\* the names of the courses of mockCourses
CourseName == [
    cs |-> <<"C","o","m","p","u","t","e","r"," ","S","c","i","e","n","c","e">>,
    ds |-> <<"D","a","t","a"," ","S","c","i","e","n","c","e">>,
    wd |-> <<"W","e","b"," ","D","e","v","e","l","o","p","m","e","n","t">>,
    md |-> <<"M","o","b","i","l","e"," ","D","e","v","e","l","o","p","m","e","n","t">>,
    cy |-> <<"C","y","b","e","r","s","e","c","u","r","i","t","y">>]

\* an object literal { id, name, email, course, profileImage, enrollmentDate, status }
StudentLiteral(id, name, email, course, profileImage, enrollmentDate, status) ==
    Obj(<<Prop(K.id, Str(id)), Prop(K.name, Str(name)), Prop(K.email, Str(email)),
          Prop(K.course, Str(course)), Prop(K.profileImage, Str(profileImage)),
          Prop(K.enrollmentDate, Str(enrollmentDate)), Prop(K.status, Str(status))>>)

-----------------------------------------------------------------------------
(* StudentStorage (lib/student-storage.ts) *)

\* the three sample students
getDefaultStudents ==
    Arr(<<
      StudentLiteral(<<"1">>,
        <<"A","l","i","c","e"," ","J","o","h","n","s","o","n">>,
        <<"a","l","i","c","e",".","j","o","h","n","s","o","n","@","e","m","a","i","l",".","c",
          "o","m">>,
        CourseName.cs,
        <<"/","p","r","o","f","e","s","s","i","o","n","a","l","-","w","o","m","a","n","-","p",
          "o","r","t","r","a","i","t",".","p","n","g">>,
        <<"2","0","2","4","-","0","1","-","1","5">>,
        Status.active),
      StudentLiteral(<<"2">>,
        <<"B","o","b"," ","S","m","i","t","h">>,
        <<"b","o","b",".","s","m","i","t","h","@","e","m","a","i","l",".","c","o","m">>,
        CourseName.ds,
        <<"/","p","r","o","f","e","s","s","i","o","n","a","l","-","m","a","n","-","p","o","r",
          "t","r","a","i","t",".","p","n","g">>,
        <<"2","0","2","4","-","0","2","-","0","1">>,
        Status.active),
      StudentLiteral(<<"3">>,
        <<"C","a","r","o","l"," ","D","a","v","i","s">>,
        <<"c","a","r","o","l",".","d","a","v","i","s","@","e","m","a","i","l",".","c","o","m">>,
        CourseName.wd,
        <<"/","p","r","o","f","e","s","s","i","o","n","a","l","-","w","o","m","a","n","-","p",
          "o","r","t","r","a","i","t",".","p","n","g">>,
        <<"2","0","2","3","-","0","9","-","1","0">>,
        Status.graduated)
    >>)

\* localStorage.getItem(STORAGE_KEY): the item, or an exception of the medium
localStorage_getItem(item, fails) == IF fails THEN Throw ELSE Return(item)

\* the try block of getStudents
getStudentsTry(window, item, fails) ==
    IF ~window THEN Return(Arr(<<>>))
    ELSE LET got == localStorage_getItem(item, fails) IN
         IF got.type = "throw" THEN Throw
         ELSE LET stored == got.value IN
              IF Falsy(stored) THEN Return(getDefaultStudents)
              ELSE LET parsed == JSON_parse(stored.v) IN
                   IF parsed.type = "throw" THEN Throw
                   ELSE Return(IF IsArray(parsed.value) THEN parsed.value
                               ELSE getDefaultStudents)

\* getStudents() without its catch block
getStudents_NoCatch(window, item, fails) == getStudentsTry(window, item, fails)

\* getStudents(): the catch block turns every exception into the sample set
getStudents(window, item, fails) ==
    LET try == getStudentsTry(window, item, fails) IN
    IF try.type = "throw" THEN Return(getDefaultStudents) ELSE try

\* the outcome of a call that may write: its completion and the item afterwards
Outcome(c, item) == [completion |-> c, item |-> item]

\* the try block of saveStudents: localStorage.setItem writes the whole text or throws
saveStudentsTry(window, item, records, fails) ==
    IF ~window THEN Outcome(Return(Bool(FALSE)), item)
    ELSE IF fails THEN Outcome(Throw, item)
    ELSE Outcome(Return(Bool(TRUE)), Str(JSON_stringify(records)))

\* saveStudents(records) without its catch block
saveStudents_NoCatch(window, item, records, fails) ==
    saveStudentsTry(window, item, records, fails)

\* saveStudents(records): the catch block turns every exception into false
saveStudents(window, item, records, fails) ==
    LET try == saveStudentsTry(window, item, records, fails) IN
    IF try.completion.type = "throw" THEN Outcome(Return(Bool(FALSE)), try.item) ELSE try

\* the try block of clearStudents: localStorage.removeItem removes the item or throws
clearStudentsTry(window, item, fails) ==
    IF ~window THEN Outcome(Return(Bool(FALSE)), item)
    ELSE IF fails THEN Outcome(Throw, item)
    ELSE Outcome(Return(Bool(TRUE)), Null)

\* clearStudents()
clearStudents(window, item, fails) ==
    LET try == clearStudentsTry(window, item, fails) IN
    IF try.completion.type = "throw" THEN Outcome(Return(Bool(FALSE)), try.item) ELSE try

\* the record of an adapter call: the operation, its argument, whether the
\* medium failed during it, the item before it and its completion
Call(op, arg, fails, before, completion) ==
    [op |-> op, arg |-> arg, fails |-> fails, before |-> before, completion |-> completion]

NoCall == Call("none", Undefined, FALSE, Null, Return(Undefined))

\* what the store is known to hold: the argument of the last successful save
Saved(records) == [valid |-> TRUE, students |-> records]
NothingSaved == [valid |-> FALSE, students |-> Undefined]

-----------------------------------------------------------------------------
(* Strings: String.prototype.trim, toLowerCase and the regular expressions *)

LowerLetters ==
    <<"a", "b", "c", "d", "e", "f", "g", "h", "i", "j", "k", "l", "m", "n", "o", "p"
      , "q", "r", "s", "t", "u", "v", "w", "x", "y", "z">>
UpperLetters ==
    <<"A", "B", "C", "D", "E", "F", "G", "H", "I", "J", "K", "L", "M", "N", "O", "P"
      , "Q", "R", "S", "T", "U", "V", "W", "X", "Y", "Z">>

\* [a-zA-Z]
IsLetter(c) == \E i \in 1..26 : c = LowerLetters[i] \/ c = UpperLetters[i]

\* white space as trim() and \s see it
IsSpace(c) == c \in {" ", "\t", "\n", "\r", "\f"}

ToLowerChar(c) ==
    IF \E i \in 1..26 : c = UpperLetters[i]
    THEN LowerLetters[CHOOSE i \in 1..26 : c = UpperLetters[i]]
    ELSE c

\* s.toLowerCase()
ToLowerCase(s) == [i \in 1..Len(s) |-> ToLowerChar(s[i])]

RECURSIVE TrimStart(_)
TrimStart(s) == IF s # <<>> /\ IsSpace(Head(s)) THEN TrimStart(Tail(s)) ELSE s

RECURSIVE TrimEnd(_)
TrimEnd(s) ==
    IF s # <<>> /\ IsSpace(s[Len(s)]) THEN TrimEnd(SubSeq(s, 1, Len(s) - 1)) ELSE s

\* s.trim()
Trim(s) == TrimEnd(TrimStart(s))

\* /^[a-zA-Z\s\-']+$/.test(s)
NameRegexTest(s) ==
    /\ s # <<>>
    /\ \A i \in 1..Len(s) : IsLetter(s[i]) \/ IsSpace(s[i]) \/ s[i] \in {"-", "'"}

\* [^\s@]+ matches the whole of s
NoSpaceNoAt(s) == s # <<>> /\ \A i \in 1..Len(s) : ~IsSpace(s[i]) /\ s[i] # "@"

\* /^[^\s@]+@[^\s@]+\.[^\s@]+$/.test(s): s is local @ domain . tld
EmailRegexTest(s) ==
    \E a \in 1..Len(s), d \in 1..Len(s) :
        /\ a < d
        /\ s[a] = "@" /\ s[d] = "."
        /\ NoSpaceNoAt(SubSeq(s, 1, a - 1))
        /\ NoSpaceNoAt(SubSeq(s, a + 1, d - 1))
        /\ NoSpaceNoAt(SubSeq(s, d + 1, Len(s)))

-----------------------------------------------------------------------------
(* The editor's validation rules and payload (components/student-form.tsx) *)

\* undefined as the result of a validator: no message; every message is a
\* non-empty string, so that a message is truthy and NoError is not
NoError == ""

\* validateName applying its rules to the value as typed
validateName_NoTrim(name) ==
    IF name = <<>> THEN "Name is required"
    ELSE IF Len(name) < 2 THEN "Name must be at least 2 characters long"
    ELSE IF Len(name) > 50 THEN "Name must be less than 50 characters"
    ELSE IF ~NameRegexTest(name)
    THEN "Name can only contain letters, spaces, hyphens, and apostrophes"
    ELSE NoError

validateName(name) ==
    IF Trim(name) = <<>> THEN "Name is required"
    ELSE IF Len(Trim(name)) < 2 THEN "Name must be at least 2 characters long"
    ELSE IF Len(Trim(name)) > 50 THEN "Name must be less than 50 characters"
    ELSE IF ~NameRegexTest(Trim(name))
    THEN "Name can only contain letters, spaces, hyphens, and apostrophes"
    ELSE NoError

\* validateEmailFormat matching the trimmed value against the pattern
validateEmailFormat_Trimmed(email) ==
    IF Trim(email) = <<>> THEN "Email is required"
    ELSE IF ~EmailRegexTest(Trim(email)) THEN "Please enter a valid email address"
    ELSE NoError

validateEmailFormat(email) ==
    IF Trim(email) = <<>> THEN "Email is required"
    ELSE IF ~EmailRegexTest(email) THEN "Please enter a valid email address"
    ELSE NoError

validateCourse(course) ==
    IF course = <<>> THEN "Please select a course" ELSE NoError

\* the field values of the editor
FormData(name, email, course, profileImage, status) ==
    [name |-> name, email |-> email, course |-> course,
     profileImage |-> profileImage, status |-> status]

\* the error set of the editor: a message per field, NoError where the key is absent
Errors(name, email, course, profileImage) ==
    [name |-> name, email |-> email, course |-> course, profileImage |-> profileImage]

NoErrors == Errors(NoError, NoError, NoError, NoError)

\* newErrors of validateForm: the three rules on the field values, and the
\* availability result when it is false ("null", "true" or "false")
validateFormErrors(fd, result) ==
    Errors(validateName(fd.name),
           IF result = "false" THEN "This email address is already in use"
           ELSE validateEmailFormat(fd.email),
           validateCourse(fd.course),
           NoError)

\* validateForm(): Object.keys(newErrors).length === 0
validateForm(fd, result) == validateFormErrors(fd, result) = NoErrors

\* new Date().toISOString().split("T")[0], the day of the submission
Today == <<"2", "0", "2", "6", "-", "0", "1", "-", "0", "2">>

\* a ?? b
Nullish(v, default) == IF v.k \in {"undef", "null"} THEN default ELSE v

\* studentData of handleSubmit, from the field values and the record being
\* edited (initialData: initial, Null when a record is created)
studentData(fd, initial) ==
    LET id == IF initial = Null THEN Undefined ELSE Get(initial, K.id)
        base == IF Falsy(id) THEN <<>> ELSE <<Prop(K.id, id)>>
        enrolled == IF initial = Null THEN Undefined
                    ELSE Get(initial, K.enrollmentDate)
    IN  Obj(base \o
            <<Prop(K.name, Str(Trim(fd.name))),
              Prop(K.email, Str(ToLowerCase(Trim(fd.email)))),
              Prop(K.course, Str(fd.course)),
              Prop(K.profileImage,
                   IF fd.profileImage = <<>> THEN Undefined ELSE Str(fd.profileImage)),
              Prop(K.enrollmentDate, Nullish(enrolled, Str(Today))),
              Prop(K.status, Str(fd.status))>>)

-----------------------------------------------------------------------------
(* The dashboard controller (app/page.tsx) *)

\* a === b on strings and undefined
StrictEquals(a, b) == a = b

\* handleAddStudent putting the new record first
handleAddStudent_Prepend(arr, data, time) ==
    LET newStudent == ObjSet(Spread(Obj(<<>>), data.v), K.id, Str(NumberToString(time)))
    IN  Arr(<<newStudent>> \o arr.v)

\* newStudent and updatedStudents of handleAddStudent; time is Date.now()
handleAddStudent_updatedStudents(arr, data, time) ==
    LET newStudent == ObjSet(Spread(Obj(<<>>), data.v), K.id, Str(NumberToString(time)))
    IN  Arr(Append(arr.v, newStudent))

\* handleEditStudent adding the record when no record has the id
handleEditStudent_Upserting(arr, data, editing) ==
    LET updatedStudent == ObjSet(Spread(Obj(<<>>), data.v), K.id, Get(editing, K.id))
        found == \E i \in 1..Len(arr.v) :
                    StrictEquals(Get(arr.v[i], K.id), Get(editing, K.id))
    IN  IF found
        THEN Arr([i \in 1..Len(arr.v) |->
                    IF StrictEquals(Get(arr.v[i], K.id), Get(editing, K.id))
                    THEN updatedStudent ELSE arr.v[i]])
        ELSE Arr(Append(arr.v, updatedStudent))

\* updatedStudent and updatedStudents of handleEditStudent
handleEditStudent_updatedStudents(arr, data, editing) ==
    LET updatedStudent == ObjSet(Spread(Obj(<<>>), data.v), K.id, Get(editing, K.id))
    IN  Arr([i \in 1..Len(arr.v) |->
               IF StrictEquals(Get(arr.v[i], K.id), Get(editing, K.id))
               THEN updatedStudent ELSE arr.v[i]])

\* updatedStudents of handleDeleteStudent
handleDeleteStudent_updatedStudents(arr, studentId) ==
    Arr(SelectSeq(arr.v, LAMBDA s : ~StrictEquals(Get(s, K.id), studentId)))

\* the names of the courses getCourses() resolves to: a copy of mockCourses
mockCourses ==
    <<CourseName.cs, CourseName.ds, CourseName.wd, CourseName.md, CourseName.cy>>

\* the ids of the navigation items of ResponsiveNavigation
Tabs == {"list", "form", "analytics", "settings"}

\* the record of a handler run: the operation, its argument, the row of the
\* list it came from, the record array and the editing target before it
Op(op, arg, row, before, editing) ==
    [op |-> op, arg |-> arg, row |-> row, before |-> before, editing |-> editing]

NoOp == Op("none", Undefined, 0, Arr(<<>>), Null)

\* the dashboard is rendered: neither the loading spinner nor the error panel
Rendered == ~loading /\ error = NoError

-----------------------------------------------------------------------------
(* Calls of the persistence adapter: their effect on the store *)

\* studentStorage.getStudents()
callGetStudents(fails) ==
    /\ last' = Call("get", Undefined, fails, storage, getStudents(hasWindow, storage, fails))
    /\ UNCHANGED <<hasWindow, storage, saved, demoVars>>

\* a step in which the adapter is not called
callNothing ==
    /\ last' = NoCall
    /\ UNCHANGED <<hasWindow, storage, saved, demoVars>>

\* a handler that does not push its array into the adapter
callSaveStudents_Skipped(records, fails) == callNothing

\* studentStorage.saveStudents(records)
callSaveStudents(records, fails) ==
    LET out == saveStudents(hasWindow, storage, records, fails) IN
    /\ storage' = out.item
    /\ last' = Call("save", records, fails, storage, out.completion)
    /\ saved' = IF out.completion = Return(Bool(TRUE)) THEN Saved(records) ELSE saved
    /\ UNCHANGED <<hasWindow, demoVars>>

\* studentStorage.clearStudents()
callClearStudents(fails) ==
    LET out == clearStudents(hasWindow, storage, fails) IN
    /\ storage' = out.item
    /\ last' = Call("clear", Undefined, fails, storage, out.completion)
    /\ saved' = IF out.completion = Return(Bool(TRUE)) THEN NothingSaved ELSE saved
    /\ UNCHANGED <<hasWindow, demoVars>>

-----------------------------------------------------------------------------
(* The record editor (components/student-form.tsx): its state and handlers *)

\* the delay of the debounce effect, in milliseconds
DebounceMs == 500

\* simulateNetworkDelay(100, 300) of mockApiService.validateEmail
MinDelayMs == 100
MaxDelayMs == 300

\* the step in which time advances, in milliseconds
TickMs == 100

\* useState of formData
BlankForm == FormData(<<>>, <<>>, <<>>, <<>>, Status.active)

\* a timer set by setTimeout, with the email it will check, and no timer
Timer(email, left) == [set |-> TRUE, email |-> email, left |-> left]
NoTimer == [set |-> FALSE, email |-> <<>>, left |-> 0]

\* a call of mockApiService.validateEmail with the time until it resolves
Validation(email, left) == [email |-> email, left |-> left]

\* the call of the onSubmit prop made by the last step, with its payload, and
\* whether its promise is still pending
Submission(called, data, pending) == [called |-> called, data |-> data, pending |-> pending]
NoSubmission == Submission(FALSE, Undefined, FALSE)

\* no editor is mounted
NoEditor ==
    /\ initialData = Null
    /\ formData = BlankForm
    /\ errors = NoErrors
    /\ isSubmitting = FALSE
    /\ isValidatingEmail = FALSE
    /\ emailValidationResult = "null"
    /\ imagePreview = Null
    /\ timeoutId = NoTimer
    /\ timers = {}
    /\ validations = <<>>
    /\ submission = NoSubmission
    /\ fileInput = Null
    /\ readers = {}

\* email.includes("@")
IncludesAt(email) == \E i \in 1..Len(email) : email[i] = "@"

\* validateEmail with a pattern of its own, which wants a top-level domain of
\* three characters or more
validateEmail_OwnPattern(email) ==
    /\ IncludesAt(email)
    /\ EmailRegexTest(email)
    /\ \E d \in 1..Len(email) : email[d] = "." /\ Len(email) - d >= 3

\* the value mockApiService.validateEmail(email) resolves to
validateEmail(email) == IncludesAt(email) /\ EmailRegexTest(email)

\* the delays after which validateEmail(email) may resolve: at once without
\* an "@", else simulateNetworkDelay
validateEmailDelays(email) ==
    IF ~IncludesAt(email) THEN {0}
    ELSE {d \in MinDelayMs..MaxDelayMs : (d - MinDelayMs) % TickMs = 0}

\* the errors after validateField(fieldName, value)
validateField(errs, fieldName, value) ==
    LET fieldError == CASE fieldName = "name" -> validateName(value)
                        [] fieldName = "email" -> validateEmailFormat(value)
                        [] fieldName = "course" -> validateCourse(value)
                        [] OTHER -> NoError
    IN  IF fieldName \in DOMAIN errs THEN [errs EXCEPT ![fieldName] = fieldError] ELSE errs

\* Object.values(errors).some(Boolean)
hasErrors(errs) == \E f \in DOMAIN errs : errs[f] # NoError

\* isFormValid without its last conjunct
isFormValid_IgnoringCheck(fd, errs, result, validating) ==
    /\ Trim(fd.name) # <<>>
    /\ Trim(fd.email) # <<>>
    /\ fd.course # <<>>
    /\ ~hasErrors(errs)
    /\ result # "false"

\* isFormValid
isFormValid(fd, errs, result, validating) ==
    /\ Trim(fd.name) # <<>>
    /\ Trim(fd.email) # <<>>
    /\ fd.course # <<>>
    /\ ~hasErrors(errs)
    /\ result # "false"
    /\ ~validating

\* the unchanged-email test without toLowerCase()
isUnchangedEmail_CaseSensitive(email, initial) ==
    /\ initial # Null
    /\ ~Falsy(Get(initial, K.email))
    /\ Trim(email) = Get(initial, K.email).v

\* the unchanged-email test of validateEmailAsync
isUnchangedEmail(email, initial) ==
    /\ initial # Null
    /\ ~Falsy(Get(initial, K.email))
    /\ ToLowerCase(Trim(email)) = ToLowerCase(Trim(Get(initial, K.email).v))

\* clearTimeout(handle): the pending timers without that of the handle
clearTimeout(pending, handle) == pending \ {handle}

\* the debounce effect without the cleanup of its earlier run
debounceEffect_NoCleanup(email) ==
    IF email = <<>>
    THEN /\ timeoutId' = NoTimer
         /\ timers' = timers
         /\ emailValidationResult' = "null"
    ELSE /\ timeoutId' = Timer(email, DebounceMs)
         /\ timers' = timers \cup {Timer(email, DebounceMs)}
         /\ UNCHANGED emailValidationResult

\* the debounce effect after formData.email became email: the cleanup of the
\* earlier run clears its timer, then an empty email resets the result and
\* any other email sets a timer
debounceEffect(email) ==
    IF email = <<>>
    THEN /\ timeoutId' = NoTimer
         /\ timers' = clearTimeout(timers, timeoutId)
         /\ emailValidationResult' = "null"
    ELSE /\ timeoutId' = Timer(email, DebounceMs)
         /\ timers' = clearTimeout(timers, timeoutId) \cup {Timer(email, DebounceMs)}
         /\ UNCHANGED emailValidationResult

-----------------------------------------------------------------------------
(* The persistence adapter on its own: any record set saved, loaded and    *)
(* cleared against a store that holds anything and a medium that may fail  *)

\* the longest record set saved
MaxRecords == 2

\* records as the program builds them: a literal with every property, a record
\* created without an image (profileImage: undefined, id set last, as
\* handleAddStudent builds it) whose strings hold a quote, a backslash and a line
\* feed, and a record without the optional property
StudentInputs ==
    <<StudentLiteral(<<"7">>, <<"A", "l">>, <<"a", "@", "b", ".", "c", "o">>, CourseName.cs,
                     <<"/", "p", ".", "p", "n", "g">>, <<"2", "0", "2", "4">>, Status.active),
      Obj(<<Prop(K.name, Str(<<"O", "\"", "N", "\\", "e", "\n", "l">>)),
            Prop(K.email, Str(<<"o", "@", "n", ".", "i", "e">>)),
            Prop(K.course, Str(CourseName.ds)),
            Prop(K.profileImage, Undefined),
            Prop(K.enrollmentDate, Str(<<"2", "0", "2", "5">>)),
            Prop(K.status, Str(Status.inactive)),
            Prop(K.id, Str(<<"8">>))>>),
      Obj(<<Prop(K.id, Str(<<"9">>)),
            Prop(K.name, Str(<<"\t", "B", " ", "b">>)),
            Prop(K.email, Str(<<>>)),
            Prop(K.course, Str(<<>>)),
            Prop(K.enrollmentDate, Str(<<"{", "[", ",", ":", "]", "}">>)),
            Prop(K.status, Str(Status.graduated))>>)>>

RECURSIVE SeqsUpTo(_, _)
\* the sequences of at most n of the elements of the sequence xs
SeqsUpTo(xs, n) ==
    IF n = 0 THEN {<<>>}
    ELSE LET shorter == SeqsUpTo(xs, n - 1) IN
         shorter \cup {Append(q, xs[i]) : q \in shorter, i \in 1..Len(xs)}

RecordSets == {Arr(q) : q \in SeqsUpTo(StudentInputs, MaxRecords)}

\* what the store may hold at the start: nothing, the empty string, texts that
\* do not parse, JSON values that are no array, and arrays
StoredInputs ==
    <<Null,
      Str(<<>>),
      Str(<<"[">>),
      Str(<<"[", "1", ",", "]">>),
      Str(<<"[", "\"", "a", "]">>),
      Str(<<"n", "u", "l", "l">>),
      Str(<<"4", "2">>),
      Str(<<"\"", "x", "\"">>),
      Str(<<"{", "\"", "i", "d", "\"", ":", "\"", "1", "\"", "}">>),
      Str(<<" ", "[", " ", "]", "\n">>),
      Str(<<"[", "1", ",", "{", "\"", "i", "d", "\"", " ", ":", "n", "u", "l", "l", "}", ",",
            "[", "t", "r", "u", "e", ",", "f", "a", "l", "s", "e", "]", "]">>)>>

\* no dashboard is mounted
\* the list as it is mounted
AllFilter == <<"a", "l", "l">>
NoFilters ==
    /\ searchTerm = <<>>
    /\ statusFilter = AllFilter
    /\ courseFilter = AllFilter
    /\ viewMode = "table"

\* the demo is not mounted, nothing is logged and the event loop is idle
NoDemo ==
    /\ logs = <<>>
    /\ isRunning = FALSE
    /\ consoleLog = <<>>
    /\ callStack = <<>>
    /\ microtasks = <<>>
    /\ macrotasks = <<>>

NoDashboard ==
    /\ loading = TRUE
    /\ error = NoError
    /\ students = Arr(<<>>)
    /\ courses = <<>>
    /\ editingStudent = Null
    /\ activeTab = "list"
    /\ now = 0
    /\ lastOp = NoOp
    /\ mutations = 0
    /\ quotaExceeded = FALSE
    /\ NoFilters

StorageInit ==
    /\ hasWindow \in BOOLEAN
    /\ \E i \in 1..Len(StoredInputs) : storage = StoredInputs[i]
    /\ last = NoCall
    /\ saved = NothingSaved
    /\ NoDemo
    /\ NoDashboard
    /\ NoEditor

\* a call of getStudents()
GetStudents(fails) ==
    callGetStudents(fails) /\ UNCHANGED <<controllerVars, editorVars>>

\* a call of saveStudents(records)
SaveStudents(records, fails) ==
    callSaveStudents(records, fails) /\ UNCHANGED <<controllerVars, editorVars>>

\* a call of clearStudents()
ClearStudents(fails) ==
    callClearStudents(fails) /\ UNCHANGED <<controllerVars, editorVars>>

StorageNext ==
    \/ \E fails \in BOOLEAN : GetStudents(fails)
    \/ \E records \in RecordSets, fails \in BOOLEAN : SaveStudents(records, fails)
    \/ \E fails \in BOOLEAN : ClearStudents(fails)

StorageSpec == StorageInit /\ [][StorageNext]_vars

-----------------------------------------------------------------------------
(* Claims about the persistence adapter (StorageSpec) *)

\* the properties of an object that hold a value, in order: a property whose
\* value is undefined reads like an absent one
DefinedProps(o) == SelectSeq(o.v, LAMBDA p : p.val.k # "undef")

\* two arrays hold the same records in the same order, each with the same
\* fields in the same order and with the same values
SameRecords(a, b) ==
    /\ IsArray(a) /\ IsArray(b)
    /\ Len(a.v) = Len(b.v)
    /\ \A i \in 1..Len(a.v) :
        /\ a.v[i].k = "obj" /\ b.v[i].k = "obj"
        /\ DefinedProps(a.v[i]) = DefinedProps(b.v[i])

\* C1: with a functioning storage medium, getStudents() after a successful
\* saveStudents(R) returns R: the same records in the same order with the same
\* field values, and the empty set for the empty set.
C1_SaveLoadRoundTrip ==
    (last.op = "get" /\ hasWindow /\ ~last.fails /\ saved.valid) =>
        /\ last.completion.type = "return"
        /\ SameRecords(last.completion.value, saved.students)
        /\ (saved.students = Arr(<<>>) => last.completion.value = Arr(<<>>))

\* a record set with a quote in a name and an undefined image was saved and loaded
C1_Witness ==
    /\ last.op = "get" /\ hasWindow /\ ~last.fails /\ saved.valid
    /\ Len(saved.students.v) = 2
    /\ saved.students.v[1] = StudentInputs[2]
    /\ Get(last.completion.value.v[1], K.name) = Get(StudentInputs[2], K.name)

\* what the claim C2 says getStudents() returns, given the item it read
C2_Claimed(call) ==
    IF \/ call.before = Null
       \/ call.fails
       \/ JSON_parse(call.before.v).type = "throw"
       \/ ~IsArray(JSON_parse(call.before.v).value)
    THEN getDefaultStudents
    ELSE JSON_parse(call.before.v).value

\* C2 as stated: getStudents() never raises; it returns the sample set when
\* nothing was written, when the medium throws on read, when the stored value
\* does not parse or is no array, and the stored array in every other case.
C2_AsStated ==
    last.op = "get" =>
        last.completion = Return(C2_Claimed(last))

\* C2, amended: the same where a window object exists; without one (server-side
\* rendering) getStudents() returns the empty array.
C2_GetStudentsTotal ==
    last.op = "get" =>
        last.completion = Return(IF hasWindow THEN C2_Claimed(last) ELSE Arr(<<>>))

\* the medium threw on read and the sample set was returned
C2_Witness ==
    /\ last.op = "get" /\ hasWindow /\ last.fails
    /\ last.before # Null
    /\ last.completion = Return(getDefaultStudents)

\* C3: saveStudents(records) never raises; it returns true exactly when the
\* write succeeded, and then the store holds the given record set and nothing
\* of the prior value; it returns false otherwise, and then the store is as it was.
C3_SaveStudentsTotal ==
    last.op = "save" =>
        /\ last.completion.type = "return"
        /\ last.completion.value \in {Bool(TRUE), Bool(FALSE)}
        /\ (last.completion.value = Bool(TRUE)) <=> (hasWindow /\ ~last.fails)
        /\ last.completion.value = Bool(TRUE) =>
            /\ storage.k = "str"
            /\ JSON_parse(storage.v).type = "return"
            /\ SameRecords(JSON_parse(storage.v).value, last.arg)
        /\ last.completion.value = Bool(FALSE) => storage = last.before

\* a write failed over a store that held a record set, and one succeeded over it
C3_Witness ==
    /\ last.op = "save"
    /\ last.before # Null /\ last.before # Str(<<>>)
    /\ \/ last.fails /\ hasWindow /\ last.completion = Return(Bool(FALSE))
       \/ last.completion = Return(Bool(TRUE)) /\ storage # last.before

-----------------------------------------------------------------------------
(* The dashboard: the controller with the record browser's edit and delete  *)
(* buttons, the navigation and the editor's submissions                     *)

\* the most create, update and delete operations of a run
MaxMutations == 3

\* Date.now() at the start, and how far it advances
ClockStart == 1000
MaxClockSteps == 1

\* field values the editor may hold when the form is submitted: one set that
\* passes validateForm (a name to be trimmed, an email to be lower-cased, no
\* image), one with a digit in the name, one with an email without a
\* top-level domain
FormInputs ==
    <<FormData(<<" ", "A", "l">>, <<"A", "@", "b", ".", "c", "o">>, CourseName.cs,
               <<>>, Status.active),
      FormData(<<"J", "1">>, <<"j", "@", "k", ".", "l", "m">>, CourseName.cs,
               <<>>, Status.active),
      FormData(<<"A", "l">>, <<"a", "@", "b">>, CourseName.cs, <<>>, Status.inactive)>>

\* the field values submitted in an earlier session: a hyphenated name, an image
EarlierForm ==
    FormData(<<"B", "o", "-", "b">>, <<"b", "@", "c", ".", "d", "e">>, CourseName.ds,
             <<"d", "a", "t", "a", ":", "x">>, Status.graduated)

\* a string property as the editor's effect copies it: value || ""
OrEmpty(v) == IF v.k = "str" THEN v.v ELSE <<>>

\* the field values the editor is given for the record it edits
initialFormData(initial) ==
    FormData(OrEmpty(Get(initial, K.name)), OrEmpty(Get(initial, K.email)),
             OrEmpty(Get(initial, K.course)), OrEmpty(Get(initial, K.profileImage)),
             OrEmpty(Get(initial, K.status)))

\* a record set an earlier session left in the store: one record created
\* through the form, before the clock of this session
EarlierSession ==
    Str(JSON_stringify(handleAddStudent_updatedStudents(
            Arr(<<>>), studentData(EarlierForm, Null), ClockStart - 1)))

\* an id no record of the dashboard has
AbsentId == Str(<<"0">>)

\* the dashboard at mount, loadInitialData started: a browser, the store empty
\* or left by an earlier session, the tab that useLocalStorage restored, and
\* a store that accepts the writes of this session or rejects them all
\* (setItem throwing, as with an exhausted quota)
Init ==
    /\ hasWindow = TRUE
    /\ storage \in {Null, EarlierSession}
    /\ last = NoCall
    /\ saved = NothingSaved
    /\ NoDemo
    /\ loading = TRUE
    /\ error = NoError
    /\ students = Arr(<<>>)
    /\ courses = <<>>
    /\ editingStudent = Null
    /\ activeTab \in Tabs
    /\ now = ClockStart
    /\ lastOp = NoOp
    /\ mutations = 0
    /\ quotaExceeded \in BOOLEAN
    /\ NoFilters
    /\ NoEditor

\* loadInitialData after its awaits: the courses arrive and the records are
\* read, or getCourses() rejects
LoadFinish(coursesOk, fails) ==
    /\ loading
    /\ IF coursesOk
       THEN /\ courses' = mockCourses
            /\ callGetStudents(fails)
            /\ students' = getStudents(hasWindow, storage, fails).value
            /\ error' = error
       ELSE /\ error' = "Failed to fetch courses from API"
            /\ callNothing
            /\ UNCHANGED <<courses, students>>
    /\ loading' = FALSE
    /\ lastOp' = NoOp
    /\ UNCHANGED <<editingStudent, activeTab, now, mutations, quotaExceeded, editorVars,
                   listVars>>

\* a retry that leaves the error set
Retry_KeepingError ==
    /\ ~loading /\ error # NoError
    /\ loading' = TRUE
    /\ lastOp' = NoOp
    /\ callNothing
    /\ UNCHANGED <<error, students, courses, editingStudent, activeTab, now, mutations,
                   quotaExceeded, editorVars, listVars>>

\* the retry button of the error panel: loadInitialData up to its first await
Retry ==
    /\ ~loading /\ error # NoError
    /\ loading' = TRUE
    /\ error' = NoError
    /\ lastOp' = NoOp
    /\ callNothing
    /\ UNCHANGED <<students, courses, editingStudent, activeTab, now, mutations,
                   quotaExceeded, editorVars,
                   listVars>>

\* a navigation item: onTabChange(tab)
TabChange(tab) ==
    /\ Rendered
    /\ activeTab' = tab
    /\ lastOp' = NoOp
    /\ callNothing
    /\ UNCHANGED <<loading, error, students, courses, editingStudent, now, mutations,
                   quotaExceeded, editorVars,
                   listVars>>

\* the edit button of a row of the list: startEditing(student)
StartEditing(row) ==
    /\ Rendered /\ activeTab = "list"
    /\ row \in 1..Len(students.v)
    /\ editingStudent' = students.v[row]
    /\ activeTab' = "form"
    /\ lastOp' = NoOp
    /\ callNothing
    /\ UNCHANGED <<loading, error, students, courses, now, mutations, quotaExceeded, editorVars,
                   listVars>>

\* the cancel button of the editor, shown while a record is edited: cancelEditing()
CancelEditing ==
    /\ Rendered /\ activeTab = "form"
    /\ editingStudent # Null
    /\ editingStudent' = Null
    /\ activeTab' = "list"
    /\ lastOp' = NoOp
    /\ callNothing
    /\ UNCHANGED <<loading, error, students, courses, now, mutations, quotaExceeded, editorVars,
                   listVars>>

\* handleDeleteStudent reachable while the spinner or the error panel is shown
DeleteStudent_Unguarded(row) ==
    /\ activeTab = "list"
    /\ mutations < MaxMutations
    /\ row \in 0..Len(students.v)
    /\ LET studentId == IF row = 0 THEN AbsentId ELSE Get(students.v[row], K.id)
           updatedStudents == handleDeleteStudent_updatedStudents(students, studentId)
       IN  /\ students' = updatedStudents
           /\ callSaveStudents(updatedStudents, quotaExceeded)
           /\ lastOp' = Op("delete", studentId, row, students, editingStudent)
    /\ mutations' = mutations + 1
    /\ UNCHANGED <<loading, error, courses, editingStudent, activeTab, now, quotaExceeded, editorVars,
                   listVars>>

\* handleDeleteStudent(studentId), from the delete button of a row of the
\* list, or (row 0) with an id no record has
DeleteStudent(row) ==
    /\ Rendered /\ activeTab = "list"
    /\ mutations < MaxMutations
    /\ row \in 0..Len(students.v)
    /\ LET studentId == IF row = 0 THEN AbsentId ELSE Get(students.v[row], K.id)
           updatedStudents == handleDeleteStudent_updatedStudents(students, studentId)
       IN  /\ students' = updatedStudents
           /\ callSaveStudents(updatedStudents, quotaExceeded)
           /\ lastOp' = Op("delete", studentId, row, students, editingStudent)
    /\ mutations' = mutations + 1
    /\ UNCHANGED <<loading, error, courses, editingStudent, activeTab, now, quotaExceeded, editorVars,
                   listVars>>

\* handleAddStudent(studentData)
handleAddStudent(data, time) ==
    LET updatedStudents == handleAddStudent_updatedStudents(students, data, time) IN
    /\ students' = updatedStudents
    /\ callSaveStudents(updatedStudents, quotaExceeded)
    /\ activeTab' = "list"
    /\ now' = time
    /\ UNCHANGED <<loading, error, courses, editingStudent, quotaExceeded, editorVars,
                   listVars>>

\* handleEditStudent(studentData), given that a record is edited
handleEditStudent(data) ==
    LET updatedStudents ==
            handleEditStudent_updatedStudents(students, data, editingStudent) IN
    /\ students' = updatedStudents
    /\ callSaveStudents(updatedStudents, quotaExceeded)
    /\ editingStudent' = Null
    /\ activeTab' = "list"
    /\ UNCHANGED <<loading, error, courses, now, quotaExceeded, editorVars,
                   listVars>>

\* the editor submits the field values fd for a new record: handleSubmit
\* validates, builds the payload and awaits onSubmit = handleAddStudent
SubmitCreate(fd, time) ==
    /\ Rendered /\ activeTab = "form"
    /\ editingStudent = Null
    /\ mutations < MaxMutations
    /\ validateForm(fd, "null")
    /\ time \in now..(ClockStart + MaxClockSteps)
    /\ handleAddStudent(studentData(fd, Null), time)
    /\ lastOp' = Op("create", studentData(fd, Null), 0, students, editingStudent)
    /\ mutations' = mutations + 1

\* the editor submits the field values fd for the record it edits: handleSubmit
\* validates, builds the payload and awaits onSubmit = handleEditStudent
SubmitUpdate(fd) ==
    /\ Rendered /\ activeTab = "form"
    /\ editingStudent # Null
    /\ mutations < MaxMutations
    /\ validateForm(fd, "null")
    /\ handleEditStudent(studentData(fd, editingStudent))
    /\ lastOp' = Op("update", studentData(fd, editingStudent), 0, students, editingStudent)
    /\ mutations' = mutations + 1

Next ==
    \/ \E coursesOk \in BOOLEAN, fails \in BOOLEAN : LoadFinish(coursesOk, fails)
    \/ Retry
    \/ \E tab \in Tabs : TabChange(tab)
    \/ \E row \in 1..Len(students.v) : StartEditing(row)
    \/ CancelEditing
    \/ \E row \in 0..Len(students.v) : DeleteStudent(row)
    \/ \E i \in 1..Len(FormInputs), time \in ClockStart..(ClockStart + MaxClockSteps) :
          SubmitCreate(FormInputs[i], time)
    \/ \E i \in 1..Len(FormInputs) : SubmitUpdate(FormInputs[i])
    \/ editingStudent # Null /\ SubmitUpdate(initialFormData(editingStudent))

Spec == Init /\ [][Next]_vars

-----------------------------------------------------------------------------
(* Claims about the dashboard controller *)

\* the record array the store holds, as JSON.parse reads it
Snapshot == IF storage.k = "str" THEN JSON_parse(storage.v) ELSE Throw

\* the store holds the records of arr
SnapshotIs(arr) == Snapshot.type = "return" /\ SameRecords(Snapshot.value, arr)

\* the properties of a record but its id
NonIdProps(o) == SelectSeq(o.v, LAMBDA p : p.key # K.id)

\* the seq without its element at position i
RemoveAt(seq, i) == SubSeq(seq, 1, i - 1) \o SubSeq(seq, i + 1, Len(seq))

\* C4: each time a create, update or delete operation of the controller has
\* completed, the persisted snapshot equals the in-memory record array, given
\* a storage medium that accepts writes.
C4_SnapshotEqualsMemory ==
    (lastOp.op \in {"create", "update", "delete"} /\ ~quotaExceeded) =>
        /\ last.op = "save"
        /\ last.completion = Return(Bool(TRUE))
        /\ SnapshotIs(students)

\* a create, an update and a delete each ran over a store that held an older
\* array, the create with an undefined image
C4_Witness ==
    /\ lastOp.op = "delete" /\ lastOp.row > 0
    /\ ~quotaExceeded
    /\ mutations = 3
    /\ last.before.k = "str"
    /\ Len(students.v) = 3
    /\ \E i \in 1..3 : Get(students.v[i], K.profileImage) = Undefined
    /\ \E i \in 1..3 : /\ Get(students.v[i], K.id) \in {Str(<<"1">>), Str(<<"2">>), Str(<<"3">>)}
                       /\ Get(students.v[i], K.name) = Str(<<"A", "l">>)

\* C6: create appends exactly one record at the end of the record array; it
\* has the fields of the submitted payload and the id the controller made
\* from Date.now(); the records before it are unchanged and keep their
\* positions; the active view becomes the list.
C6_CreateAppends ==
    lastOp.op = "create" =>
        LET n == Len(lastOp.before.v)
            new == students.v[n + 1]
        IN  /\ Len(students.v) = n + 1
            /\ SubSeq(students.v, 1, n) = lastOp.before.v
            /\ NonIdProps(new) = lastOp.arg.v
            /\ ~HasKey(lastOp.arg, K.id)
            /\ Get(new, K.id) = Str(NumberToString(now))
            /\ activeTab = "list"

\* a record was appended to the sample set after one of its records was deleted
C6_Witness ==
    /\ lastOp.op = "create"
    /\ Len(lastOp.before.v) = 2
    /\ Get(lastOp.before.v[1], K.id) = Str(<<"2">>)
    /\ Get(students.v[3], K.name) = Str(<<"A", "l">>)
    /\ Get(students.v[3], K.email) = Str(<<"a", "@", "b", ".", "c", "o">>)
    /\ HasKey(students.v[3], K.profileImage)
    /\ now > ClockStart

\* no two records of the array share an id
UniqueIds(arr) ==
    \A i, j \in 1..Len(arr.v) : Get(arr.v[i], K.id) = Get(arr.v[j], K.id) => i = j

\* C8 as stated: after any sequence of create, update and delete operations,
\* from the sample set or a persisted set with distinct ids, no two records
\* of the in-memory array share an id.
C8_AsStated == UniqueIds(students)

\* C5 as stated: deleting a record by id removes exactly that record from the
\* array and from the next snapshot, every other record and their order
\* unchanged; deleting an id no record has leaves the array unchanged and
\* still saves it.
C5_AsStated ==
    lastOp.op = "delete" =>
        /\ students.v = IF lastOp.row = 0 THEN lastOp.before.v
                        ELSE RemoveAt(lastOp.before.v, lastOp.row)
        /\ last.op = "save" /\ last.arg = students
        /\ ~quotaExceeded => SnapshotIs(students)

\* the positions of the records with the id of the editing target
Targets(arr, editing) ==
    {p \in 1..Len(arr.v) : Get(arr.v[p], K.id) = Get(editing, K.id)}

\* C7 as stated: after updating record r the array has the same length, the
\* record at r's position has r's id and enrollment date and the submitted
\* name, email, course, image and status, every other record is unchanged,
\* the editing target is cleared and the active view is the list.
C7_AsStated ==
    (lastOp.op = "update" /\ Targets(lastOp.before, lastOp.editing) # {}) =>
        /\ Len(students.v) = Len(lastOp.before.v)
        /\ \E p \in Targets(lastOp.before, lastOp.editing) :
            /\ Get(students.v[p], K.id) = Get(lastOp.before.v[p], K.id)
            /\ Get(students.v[p], K.enrollmentDate) =
                   Get(lastOp.before.v[p], K.enrollmentDate)
            /\ \A key \in {K.name, K.email, K.course, K.profileImage, K.status} :
                   Get(students.v[p], key) = Get(lastOp.arg, key)
            /\ \A q \in 1..Len(students.v) : q # p => students.v[q] = lastOp.before.v[q]
        /\ editingStudent = Null
        /\ activeTab = "list"

\* a step that calls studentStorage.saveStudents
SaveCalled == last'.op = "save"

\* an initialization run has completed without error and none is running
Initialized == ~loading /\ error = NoError /\ courses = mockCourses

\* C26: saveStudents is called only from a state in which an initialization
\* run has completed without error and none is running, and while the spinner
\* or the error panel is shown no step changes the persisted snapshot; so the
\* empty array of a failed initialization is never saved.
C26_NoSaveUntilInitialized ==
    /\ [][SaveCalled => Initialized]_vars
    /\ [][(loading \/ error # NoError) => (storage' = storage /\ saved' = saved)]_vars
    /\ [](error # NoError => students = Arr(<<>>) /\ last.op # "save")

\* a record was created in a store that held the record of an earlier session
C26_Witness ==
    /\ last.op = "save"
    /\ lastOp.op = "create"
    /\ Initialized
    /\ Len(students.v) = 2
    /\ saved = Saved(students)

\* C29: an update submitted for an editing target whose id no record of the
\* array has any more leaves the array as it was, the record is not created
\* again, that array is passed to saveStudents, the editing target is cleared
\* and the active view is the list.
C29_UpdateOfDeletedRecord ==
    (lastOp.op = "update" /\ Targets(lastOp.before, lastOp.editing) = {}) =>
        /\ students = lastOp.before
        /\ \A i \in 1..Len(students.v) :
               Get(students.v[i], K.id) # Get(lastOp.editing, K.id)
        /\ last.op = "save" /\ last.arg = lastOp.before
        /\ ~quotaExceeded => SnapshotIs(lastOp.before)
        /\ editingStudent = Null
        /\ activeTab = "list"

\* a record of the sample set was opened for editing, deleted from the list
\* and then submitted from the editor
C29_Witness ==
    /\ lastOp.op = "update"
    /\ lastOp.editing # Null
    /\ Targets(lastOp.before, lastOp.editing) = {}
    /\ Len(students.v) = 2
    /\ mutations = 2
    /\ ~quotaExceeded

-----------------------------------------------------------------------------
(* The record editor on its own: a mounted StudentForm with its props, the  *)
(* user typing and selecting, time passing, and the injected onSubmit       *)
(* handler settling as its owner decides                                    *)

\* a record as the dashboard holds it after a reload: created through the
\* form without an image, written to the store and read back
ReloadedRecord ==
    JSON_parse(JSON_stringify(handleAddStudent_updatedStudents(
        Arr(<<>>), studentData(FormInputs[1], Null), ClockStart))).value.v[1]

\* the initialData prop: none, a record of the sample set, a reloaded record
InitialInputs == <<Null, getDefaultStudents.v[1], ReloadedRecord>>

\* what the user may enter as a name: nothing, a name, a name with a digit
NameInputs == {<<>>, <<"A", "l">>, <<"J", "1">>}

\* s.toUpperCase()
ToUpperCase(s) ==
    [i \in 1..Len(s) |->
        IF \E j \in 1..26 : s[i] = LowerLetters[j]
        THEN UpperLetters[CHOOSE j \in 1..26 : s[i] = LowerLetters[j]]
        ELSE s[i]]

\* an email as it is and in capitals; the value of an <input type="email">
\* never begins or ends with white space, the browser strips it
EmailVariants(email) == {email, ToUpperCase(email)}

\* what the user may enter as an email: nothing, an address without a
\* top-level domain, an address, and the address of the record being edited,
\* also in capitals
EmailInputs(initial) ==
    {<<>>, <<"a", "@", "b">>, <<"a", "@", "b", ".", "c", "o">>}
        \cup (IF initial = Null THEN {} ELSE EmailVariants(OrEmpty(Get(initial, K.email))))

\* the names of the courses prop: the first two courses of the catalogue
CourseInputs == {mockCourses[1], mockCourses[2]}

\* the items of the status select
StatusInputs == {Status.active, Status.inactive, Status.graduated}

\* the values a field may be changed to
FieldInputs(fieldName, initial) ==
    CASE fieldName = "name" -> NameInputs
      [] fieldName = "email" -> EmailInputs(initial)
      [] fieldName = "course" -> CourseInputs
      [] fieldName = "status" -> StatusInputs

\* the editor after it mounted and its effects ran: the fields of initialData
\* copied, the debounce timer started for a non-empty email
EditorInit ==
    /\ hasWindow = TRUE
    /\ storage = Null
    /\ last = NoCall
    /\ saved = NothingSaved
    /\ NoDemo
    /\ NoDashboard
    /\ \E i \in 1..Len(InitialInputs) : initialData = InitialInputs[i]
    /\ formData = IF initialData = Null THEN BlankForm ELSE initialFormData(initialData)
    /\ errors = NoErrors
    /\ isSubmitting = FALSE
    /\ isValidatingEmail = FALSE
    /\ emailValidationResult = "null"
    /\ imagePreview = IF initialData = Null \/ Falsy(Get(initialData, K.profileImage))
                      THEN Null ELSE Get(initialData, K.profileImage)
    /\ timeoutId = IF formData.email = <<>> THEN NoTimer
                   ELSE Timer(formData.email, DebounceMs)
    /\ timers = IF formData.email = <<>> THEN {} ELSE {Timer(formData.email, DebounceMs)}
    /\ validations = <<>>
    /\ submission = NoSubmission
    /\ fileInput = Null
    /\ readers = {}

\* a step that does not call the onSubmit prop
callNoHandler == submission' = Submission(FALSE, Undefined, submission.pending)

\* the editor's call of the onSubmit prop, with a save of its own added
invokeOnSubmit_Saving(data) ==
    /\ submission' = Submission(TRUE, data, TRUE)
    /\ callSaveStudents(Arr(<<data>>), FALSE)

\* await onSubmit(studentData): the handler is called and its promise awaited
invokeOnSubmit(data) ==
    /\ submission' = Submission(TRUE, data, TRUE)
    /\ callNothing

\* handleInputChange(field) and handleSelectChange(field), on a changed value
handleChange(fieldName, value) ==
    /\ value # formData[fieldName]
    /\ formData' = [formData EXCEPT ![fieldName] = value]
    /\ errors' = validateField(errors, fieldName, value)
    /\ IF fieldName = "email" THEN debounceEffect(value)
       ELSE UNCHANGED <<timeoutId, timers, emailValidationResult>>
    /\ callNoHandler
    /\ callNothing
    /\ UNCHANGED <<initialData, isSubmitting, isValidatingEmail, imagePreview, validations,
                   controllerVars, imageVars>>

\* handleInputChange: the name and email inputs
handleInputChange(fieldName, value) ==
    fieldName \in {"name", "email"} /\ handleChange(fieldName, value)

\* handleSelectChange: the course and status selects
handleSelectChange(fieldName, value) ==
    fieldName \in {"course", "status"} /\ handleChange(fieldName, value)

\* validateEmailAsync without its format test
validateEmailAsync_NoFormatTest(delay) ==
    \E timer \in timers :
    /\ timer.left = 0
    /\ delay \in validateEmailDelays(timer.email)
    /\ IF isUnchangedEmail(timer.email, initialData)
       THEN /\ emailValidationResult' = "true"
            /\ UNCHANGED <<isValidatingEmail, validations>>
       ELSE /\ isValidatingEmail' = TRUE
            /\ emailValidationResult' = "null"
            /\ validations' = Append(validations, Validation(timer.email, delay))
    /\ timers' = timers \ {timer}
    /\ timeoutId' = IF timeoutId = timer THEN NoTimer ELSE timeoutId
    /\ callNoHandler
    /\ callNothing
    /\ UNCHANGED <<initialData, formData, errors, isSubmitting, imagePreview, controllerVars, imageVars>>

\* validateEmailAsync without setIsValidatingEmail(true)
validateEmailAsync_NoFlag(delay) ==
    \E timer \in timers :
    /\ timer.left = 0
    /\ delay \in validateEmailDelays(timer.email)
    /\ IF validateEmailFormat(timer.email) # NoError
       THEN /\ emailValidationResult' = "null"
            /\ UNCHANGED <<isValidatingEmail, validations>>
       ELSE IF isUnchangedEmail(timer.email, initialData)
       THEN /\ emailValidationResult' = "true"
            /\ UNCHANGED <<isValidatingEmail, validations>>
       ELSE /\ UNCHANGED isValidatingEmail
            /\ emailValidationResult' = "null"
            /\ validations' = Append(validations, Validation(timer.email, delay))
    /\ timers' = timers \ {timer}
    /\ timeoutId' = IF timeoutId = timer THEN NoTimer ELSE timeoutId
    /\ callNoHandler
    /\ callNothing
    /\ UNCHANGED <<initialData, formData, errors, isSubmitting, imagePreview, controllerVars, imageVars>>

\* a pending timer of the debounce effect fires: validateEmailAsync(email) up
\* to its await, with the email of the render that set the timer
validateEmailAsync(delay) ==
    \E timer \in timers :
    /\ timer.left = 0
    /\ delay \in validateEmailDelays(timer.email)
    /\ IF validateEmailFormat(timer.email) # NoError
       THEN /\ emailValidationResult' = "null"
            /\ UNCHANGED <<isValidatingEmail, validations>>
       ELSE IF isUnchangedEmail(timer.email, initialData)
       THEN /\ emailValidationResult' = "true"
            /\ UNCHANGED <<isValidatingEmail, validations>>
       ELSE /\ isValidatingEmail' = TRUE
            /\ emailValidationResult' = "null"
            /\ validations' = Append(validations, Validation(timer.email, delay))
    /\ timers' = timers \ {timer}
    /\ timeoutId' = IF timeoutId = timer THEN NoTimer ELSE timeoutId
    /\ callNoHandler
    /\ callNothing
    /\ UNCHANGED <<initialData, formData, errors, isSubmitting, imagePreview, controllerVars, imageVars>>

\* mockApiService.validateEmail resolves: validateEmailAsync after its await
validateEmailResolves(i) ==
    /\ i \in 1..Len(validations)
    /\ validations[i].left = 0
    /\ emailValidationResult' = IF validateEmail(validations[i].email) THEN "true" ELSE "false"
    /\ isValidatingEmail' = FALSE
    /\ validations' = SubSeq(validations, 1, i - 1) \o SubSeq(validations, i + 1, Len(validations))
    /\ callNoHandler
    /\ callNothing
    /\ UNCHANGED <<initialData, formData, errors, isSubmitting, imagePreview, timeoutId, timers,
                   controllerVars, imageVars>>

\* what is left of a delay after a tick
AfterTick(left) == IF left > TickMs THEN left - TickMs ELSE 0

\* time passes while a timer or a validation is pending and none is due
Tick ==
    /\ timers # {} \/ validations # <<>>
    /\ \A timer \in timers : timer.left > 0
    /\ \A i \in 1..Len(validations) : validations[i].left > 0
    /\ timers' = {Timer(timer.email, AfterTick(timer.left)) : timer \in timers}
    /\ timeoutId' = IF timeoutId.set THEN Timer(timeoutId.email, AfterTick(timeoutId.left))
                    ELSE NoTimer
    /\ validations' = [i \in 1..Len(validations) |->
                          Validation(validations[i].email, AfterTick(validations[i].left))]
    /\ callNoHandler
    /\ callNothing
    /\ UNCHANGED <<initialData, formData, errors, isSubmitting, isValidatingEmail,
                   emailValidationResult, imagePreview, controllerVars, imageVars>>

\* handleSubmit behind a submit button that stays enabled while submitting
handleSubmit_Reentrant ==
    /\ isFormValid(formData, errors, emailValidationResult, isValidatingEmail)
    /\ errors' = validateFormErrors(formData, emailValidationResult)
    /\ IF ~validateForm(formData, emailValidationResult)
       THEN /\ callNoHandler
            /\ callNothing
            /\ UNCHANGED isSubmitting
       ELSE /\ isSubmitting' = TRUE
            /\ invokeOnSubmit(studentData(formData, initialData))
    /\ UNCHANGED <<initialData, formData, isValidatingEmail, emailValidationResult,
                   imagePreview, timeoutId, timers, validations, controllerVars, imageVars>>

\* the submit button is enabled and the form is submitted: handleSubmit up to
\* its await
handleSubmit ==
    /\ ~(~isFormValid(formData, errors, emailValidationResult, isValidatingEmail)
            \/ isSubmitting)
    /\ errors' = validateFormErrors(formData, emailValidationResult)
    /\ IF ~validateForm(formData, emailValidationResult)
       THEN /\ callNoHandler
            /\ callNothing
            /\ UNCHANGED isSubmitting
       ELSE /\ isSubmitting' = TRUE
            /\ invokeOnSubmit(studentData(formData, initialData))
    /\ UNCHANGED <<initialData, formData, isValidatingEmail, emailValidationResult,
                   imagePreview, timeoutId, timers, validations, controllerVars, imageVars>>

\* the promise of onSubmit is fulfilled: handleSubmit after its await
onSubmitResolves ==
    /\ submission.pending
    /\ IF initialData = Null
       THEN /\ formData' = BlankForm
            /\ imagePreview' = Null
            /\ errors' = NoErrors
            /\ emailValidationResult' = "null"
            /\ timeoutId' = NoTimer
            /\ timers' = clearTimeout(timers, timeoutId)
       ELSE UNCHANGED <<formData, imagePreview, errors, emailValidationResult, timeoutId, timers>>
    /\ isSubmitting' = FALSE
    /\ submission' = NoSubmission
    /\ callNothing
    /\ UNCHANGED <<initialData, isValidatingEmail, validations, controllerVars, imageVars>>

\* the promise of onSubmit is rejected: the catch block of handleSubmit
onSubmitRejects ==
    /\ submission.pending
    /\ errors' = Errors(NoError, "Failed to save student. Please try again.", NoError, NoError)
    /\ isSubmitting' = FALSE
    /\ submission' = NoSubmission
    /\ callNothing
    /\ UNCHANGED <<initialData, formData, isValidatingEmail, emailValidationResult,
                   imagePreview, timeoutId, timers, validations, controllerVars, imageVars>>

\* the editor is unmounted and an editor is mounted on the i-th initialData:
\* the cleanup of the debounce effect clears its timer, what the calls and
\* the readers of the unmounted editor still deliver has no effect, and the
\* new editor starts as every editor does
Remount(i) ==
    /\ i \in 1..Len(InitialInputs)
    /\ initialData' = InitialInputs[i]
    /\ formData' = IF initialData' = Null THEN BlankForm ELSE initialFormData(initialData')
    /\ errors' = NoErrors
    /\ isSubmitting' = FALSE
    /\ isValidatingEmail' = FALSE
    /\ emailValidationResult' = "null"
    /\ imagePreview' = IF initialData' = Null \/ Falsy(Get(initialData', K.profileImage))
                       THEN Null ELSE Get(initialData', K.profileImage)
    /\ timeoutId' = IF formData'.email = <<>> THEN NoTimer
                    ELSE Timer(formData'.email, DebounceMs)
    /\ timers' = clearTimeout(timers, timeoutId)
                    \cup (IF formData'.email = <<>> THEN {}
                          ELSE {Timer(formData'.email, DebounceMs)})
    /\ validations' = <<>>
    /\ submission' = NoSubmission
    /\ fileInput' = Null
    /\ readers' = {}
    /\ callNothing
    /\ UNCHANGED controllerVars

EditorNext ==
    \/ \E fieldName \in {"name", "email"} :
          \E value \in FieldInputs(fieldName, initialData) : handleInputChange(fieldName, value)
    \/ \E fieldName \in {"course", "status"} :
          \E value \in FieldInputs(fieldName, initialData) : handleSelectChange(fieldName, value)
    \/ \E delay \in MinDelayMs..MaxDelayMs : validateEmailAsync(delay)
    \/ \E i \in 1..Len(validations) : validateEmailResolves(i)
    \/ Tick
    \/ handleSubmit
    \/ onSubmitResolves
    \/ onSubmitRejects
    \/ \E i \in 1..Len(InitialInputs) : Remount(i)

EditorSpec == EditorInit /\ [][EditorNext]_vars

-----------------------------------------------------------------------------
(* Claims about the record editor *)

\* C9: the editor calls the onSubmit handler only when, at that time, the
\* name, email-format and course rules pass on the current field values, the
\* availability result is not false and no email check is in flight.
C9_SubmitOnlyWhenValid ==
    submission.called =>
        /\ validateName(formData.name) = NoError
        /\ validateEmailFormat(formData.email) = NoError
        /\ validateCourse(formData.course) = NoError
        /\ emailValidationResult # "false"
        /\ ~isValidatingEmail
        /\ validations = <<>>

\* a new record was submitted with the status changed, after the check of its
\* email had resolved
C9_Witness ==
    /\ submission.called
    /\ initialData = Null
    /\ emailValidationResult = "true"
    /\ formData.status = Status.graduated
    /\ ~timeoutId.set

\* C10: a submission that passes validation hands the onSubmit handler a plain
\* record: the normalised field values, no id when a record is created, the
\* id of initialData when a record is edited; and no step of the editor calls
\* the persistence adapter or changes the store.
C10_PlainPayload ==
    /\ last = NoCall
    /\ storage = Null
    /\ saved = NothingSaved
    /\ submission.called =>
        /\ submission.data.k = "obj"
        /\ \A i \in 1..Len(submission.data.v) :
               submission.data.v[i].val.k \in {"str", "undef"}
        /\ initialData = Null => ~HasKey(submission.data, K.id)
        /\ initialData # Null => /\ HasKey(submission.data, K.id)
                                 /\ Get(submission.data, K.id) = Get(initialData, K.id)
        /\ Get(submission.data, K.name) = Str(Trim(formData.name))
        /\ Get(submission.data, K.email) = Str(ToLowerCase(Trim(formData.email)))
        /\ Get(submission.data, K.course) = Str(formData.course)
        /\ Get(submission.data, K.status) = Str(formData.status)

\* a record of the sample set was submitted with another email and course
C10_Witness ==
    /\ submission.called
    /\ initialData = InitialInputs[2]
    /\ formData.email = <<"a", "@", "b", ".", "c", "o">>
    /\ formData.course = mockCourses[2]
    /\ Get(submission.data, K.id) = Str(<<"1">>)
    /\ Get(submission.data, K.profileImage).k = "str"

\* the email check has nothing left to do: no debounce timer is pending
DebounceDone == ~timeoutId.set

\* the address is that of the record being edited, up to letter-casing and
\* surrounding white space
SameAddress(email) ==
    /\ initialData # Null
    /\ Get(initialData, K.email).k = "str"
    /\ ToLowerCase(Trim(email)) = ToLowerCase(Trim(Get(initialData, K.email).v))

TimerFired ==
    /\ timeoutId.set /\ timeoutId.left = 0
    /\ ~timeoutId'.set
    /\ formData' = formData

\* C12: mockApiService.validateEmail is never called with an address that
\* fails validateEmailFormat, and when validateEmailAsync runs on such an
\* address it starts no call and resets the availability result to null.
C12_CheckSkippedOnFormatFailure ==
    /\ [](\A i \in 1..Len(validations) : validateEmailFormat(validations[i].email) = NoError)
    /\ [][(TimerFired /\ validateEmailFormat(timeoutId.email) # NoError) =>
            /\ emailValidationResult' = "null"
            /\ validations' = validations
            /\ isValidatingEmail' = isValidatingEmail]_vars

\* the debounce has run on an address without a top-level domain
C12_Witness ==
    /\ formData.email = <<"a", "@", "b">>
    /\ DebounceDone
    /\ errors.email = "Please enter a valid email address"
    /\ emailValidationResult = "null"
    /\ validations = <<>>

\* a step that calls the onSubmit prop
InvokesOnSubmit == submission'.called

\* a step in which the pending call of the onSubmit prop settles
OnSubmitSettles == submission.pending /\ ~submission'.pending

\* C21: from the step that calls the onSubmit prop until that call settles,
\* isSubmitting is true and no step calls the onSubmit prop again; the step in
\* which the call settles, fulfilled or rejected, sets isSubmitting to false,
\* and isSubmitting is false whenever no call is pending.
C21_NoResubmission ==
    /\ [](isSubmitting <=> submission.pending)
    /\ [][InvokesOnSubmit => (~submission.pending /\ ~isSubmitting /\ isSubmitting')]_vars
    /\ [][OnSubmitSettles => ~isSubmitting']_vars

\* a field was changed while the call of the onSubmit prop was pending
C21_Witness ==
    /\ submission.pending
    /\ ~submission.called
    /\ isSubmitting
    /\ formData.status = Status.inactive
    /\ isFormValid(formData, errors, emailValidationResult, isValidatingEmail)

\* the submit button is enabled after the step
SubmitEnabledAfter ==
    /\ isFormValid(formData', errors', emailValidationResult', isValidatingEmail')
    /\ ~isSubmitting'

\* C22: when the promise of the onSubmit prop is rejected, the email field
\* gets an error message, the entered field values and the image preview are
\* kept, and the form can be submitted again: isSubmitting is false and the
\* submit button is enabled.
C22_AsStated ==
    [][onSubmitRejects =>
        /\ errors'.email # NoError
        /\ formData' = formData
        /\ imagePreview' = imagePreview
        /\ SubmitEnabledAfter]_vars

\* what holds of the rejection: the error is attached, the values are kept
\* and isSubmitting is false, while the error keeps the submit button disabled
C22_ErrorBlocksSubmit ==
    [][onSubmitRejects =>
        /\ errors'.email # NoError
        /\ formData' = formData
        /\ imagePreview' = imagePreview
        /\ ~isSubmitting'
        /\ ~SubmitEnabledAfter]_vars

\* the timer the debounce effect sets for an email: none for the empty one
TimerOf(email) == IF email = <<>> THEN {} ELSE {Timer(email, DebounceMs)}

\* C23: at most one debounce timer is pending at any time, and it is the timer
\* of the current email value, so that only that timer can fire and start a
\* check; a step that changes the email value leaves no earlier timer behind
\* and starts one for the new value, none if the new value is empty; and when
\* the editor is unmounted its pending timer is cleared: the only timer left
\* is the one started by the editor mounted next.
C23_Debounce ==
    /\ [](/\ Cardinality(timers) <= 1
          /\ \A timer \in timers : timer.email = formData.email /\ timer.email # <<>>)
    /\ [][formData'.email # formData.email => timers' = TimerOf(formData'.email)]_vars
    /\ [][(\E i \in 1..Len(InitialInputs) : Remount(i)) =>
            timers' = TimerOf(formData'.email)]_vars
    /\ [][validations' # validations /\ Len(validations') > Len(validations) =>
            validations'[Len(validations')].email = formData.email]_vars

\* with a record opened for editing another address was entered, and one tick
\* later the timer of that address is the only one pending
C23_Witness ==
    /\ formData.email = <<"a", "@", "b", ".", "c", "o">>
    /\ initialData # Null
    /\ formData.email # Get(initialData, K.email).v
    /\ timers = {Timer(formData.email, DebounceMs - TickMs)}
    /\ validations = <<>>
    /\ emailValidationResult = "null"

\* the message of validateForm for an address that is not available
InUse == "This email address is already in use"

\* C25: the availability result is null or true, never false: every address
\* the simulator is asked about matches the pattern the simulator tests, so
\* every pending check resolves to true, and the email error is never the
\* message "This email address is already in use".
C25_NeverUnavailable ==
    /\ emailValidationResult \in {"null", "true"}
    /\ \A i \in 1..Len(validations) :
          /\ IncludesAt(validations[i].email)
          /\ EmailRegexTest(validations[i].email)
    /\ errors.email # InUse

\* a record is created and the check of its address has resolved
C25_Witness ==
    /\ initialData = Null
    /\ formData.email = <<"a", "@", "b", ".", "c", "o">>
    /\ formData.name = <<>>
    /\ emailValidationResult = "true"
    /\ ~isValidatingEmail
    /\ timers = {}

\* a call of mockApiService.validateEmail made by the editor has not resolved
CheckUnresolved == validations # <<>>

\* C27: isValidatingEmail is true exactly while a call of validateEmail made
\* by the editor has not resolved, whatever the order of email changes, timer
\* firings and resolutions; at most one such call is unresolved at a time, and
\* while one is the form cannot be submitted.
C27_ValidatingFlag ==
    /\ isValidatingEmail <=> CheckUnresolved
    /\ Len(validations) <= 1
    /\ CheckUnresolved => ~ENABLED handleSubmit

\* the email was changed while the check of the earlier address was unresolved
C27_Witness ==
    /\ CheckUnresolved
    /\ isValidatingEmail
    /\ formData.email # validations[1].email
    /\ timers # {}
    /\ formData.name # <<>>
    /\ formData.course # <<>>
    /\ ~hasErrors(errors)

\* ---------------------------------------------------------------------------
\* The pure functions of the editor and of the views, called on their own
\* ---------------------------------------------------------------------------

\* the length of the names and of the emails that are enumerated in full
MaxNameLen == 3
MaxEmailLen == 5

\* the character c, n times
Repeat(c, n) == [i \in 1..n |-> c]

\* every name of at most MaxNameLen characters over a letter of each case, the
\* three other characters the pattern allows and a digit, and names around
\* the limits of validateName
NameStrings ==
    SeqsUpTo(<<"A", "l", " ", "-", "'", "1">>, MaxNameLen) \cup
    {<<"J","e","a","n","-","L","u","c"," ","O","'","B","r","i","e","n">>,
     <<"J","o","h","n","1","2","3">>,
     Repeat("a", 49), Repeat("a", 50), Repeat("a", 51),
     <<" ">> \o Repeat("a", 50) \o <<" ">>, Repeat("a", 49) \o <<"1">>,
     Repeat("a", 50) \o <<"1">>}

\* every email of at most MaxEmailLen characters over a character of each
\* class of the pattern, and longer addresses
EmailStrings ==
    SeqsUpTo(<<"a", "@", ".", " ">>, MaxEmailLen) \cup
    {<<"a","@","b",".","c","o">>,
     <<"n","o","-","a","t","-","s","i","g","n",".","c","o","m">>,
     <<" ","a","@","b",".","c","o"," ">>,
     <<"a","@","b",".","c",".","d">>,
     <<"A","@","B",".","C","O">>,
     <<"a","@","@","b",".","c","o">>,
     <<"a"," ","b","@","c",".","d","o">>}

ValidatorInit ==
    /\ hasWindow = TRUE
    /\ storage = Null
    /\ last = NoCall
    /\ saved = NothingSaved
    /\ NoDemo
    /\ NoDashboard
    /\ NoEditor

\* a call of validateName(name), the one call of the run
ValidateName(name) ==
    /\ last.op = NoCall.op
    /\ last' = Call("validateName", name, FALSE, storage, Return(validateName(name)))
    /\ UNCHANGED <<hasWindow, storage, saved, controllerVars, editorVars, demoVars>>

\* a call of validateEmailFormat(email), the one call of the run
ValidateEmailFormat(email) ==
    /\ last.op = NoCall.op
    /\ last' = Call("validateEmailFormat", email, FALSE, storage,
                    Return(validateEmailFormat(email)))
    /\ UNCHANGED <<hasWindow, storage, saved, controllerVars, editorVars, demoVars>>

\* the last call was validateName
NameValidated == last.op = "validateName"

\* C13: validateName reports the first rule its trimmed input fails: required
\* when it is empty, too short below 2 characters, too long above 50, invalid
\* characters unless it has only letters, spaces, hyphens and apostrophes, and
\* no error otherwise; "Al", "Jean-Luc O'Brien" and 50 letters pass, "A" is
\* too short, 51 letters are too long, "John123" has invalid characters.
C13_NameRules ==
    NameValidated =>
        LET t == Trim(last.arg)
            result == last.completion.value
            allowed == \A i \in 1..Len(t) : IsLetter(t[i]) \/ IsSpace(t[i]) \/ t[i] \in {"-", "'"}
        IN  /\ result = "Name is required" <=> Len(t) = 0
            /\ result = "Name must be at least 2 characters long" <=> Len(t) = 1
            /\ result = "Name must be less than 50 characters" <=> Len(t) > 50
            /\ result = "Name can only contain letters, spaces, hyphens, and apostrophes"
                    <=> (Len(t) \in 2..50 /\ ~allowed)
            /\ result = NoError <=> (Len(t) \in 2..50 /\ allowed)
            /\ last.arg \in {<<"A", "l">>, <<"J","e","a","n","-","L","u","c"," ","O","'","B","r","i","e","n">>,
                              Repeat("a", 50)} => result = NoError
            /\ last.arg = <<"A">> => result = "Name must be at least 2 characters long"
            /\ last.arg = Repeat("a", 51) => result = "Name must be less than 50 characters"
            /\ last.arg = <<"J","o","h","n","1","2","3">> =>
                    result = "Name can only contain letters, spaces, hyphens, and apostrophes"

\* a name of 50 letters between two spaces was validated and passed
C13_Witness ==
    /\ NameValidated
    /\ Len(last.arg) = 52
    /\ last.completion.value = NoError

\* the last call was validateEmailFormat
EmailValidated == last.op = "validateEmailFormat"

\* local@domain.tld: no white space, one "@" with characters before it, and
\* after it a dot with characters on both sides
AddressShape(s) ==
    /\ \A i \in 1..Len(s) : ~IsSpace(s[i])
    /\ Cardinality({i \in 1..Len(s) : s[i] = "@"}) = 1
    /\ LET at == CHOOSE i \in 1..Len(s) : s[i] = "@"
       IN  /\ at > 1
           /\ \E dot \in (at + 2)..(Len(s) - 1) : s[dot] = "."

\* C14: validateEmailFormat reports that the email is required when the value
\* is empty after trimming, an invalid format unless the value has the shape
\* local@domain.tld without white space, and no error otherwise; "a@b.co"
\* passes, "no-at-sign.com" fails, and the empty string fails as required.
C14_EmailFormatRules ==
    EmailValidated =>
        LET result == last.completion.value IN
        /\ result = "Email is required" <=> Trim(last.arg) = <<>>
        /\ result = "Please enter a valid email address"
                <=> (Trim(last.arg) # <<>> /\ ~AddressShape(last.arg))
        /\ result = NoError <=> AddressShape(last.arg)
        /\ last.arg = <<"a","@","b",".","c","o">> => result = NoError
        /\ last.arg = <<"n","o","-","a","t","-","s","i","g","n",".","c","o","m">>
                => result = "Please enter a valid email address"
        /\ last.arg = <<>> => result = "Email is required"

\* an address between two spaces was validated and failed the pattern
C14_Witness ==
    /\ EmailValidated
    /\ last.arg = <<" ","a","@","b",".","c","o"," ">>
    /\ last.completion.value = "Please enter a valid email address"

\* ---------------------------------------------------------------------------
\* The profile image of the record editor
\* ---------------------------------------------------------------------------

\* 5 * 1024 * 1024, the largest size handleImageUpload accepts
MaxImageBytes == 5242880

\* a File: its media type, its size in bytes, and the data URL a FileReader
\* produces for it
File(type, size, url) == [type |-> type, size |-> size, url |-> url]

\* s.startsWith(prefix)
StartsWith(s, prefix) ==
    Len(s) >= Len(prefix) /\ SubSeq(s, 1, Len(prefix)) = prefix

\* the files the user picks from: a small image, an image of exactly the
\* largest size, an image one byte larger, a small document, and a file
\* whose type the browser does not know
SmallImage == File(<<"i","m","a","g","e","/","p","n","g">>, 1, <<"d","a","t","a",":","p">>)
LargestImage == File(<<"i","m","a","g","e","/","j","p","e","g">>, MaxImageBytes, <<"d","a","t","a",":","j">>)
OversizedImage == File(<<"i","m","a","g","e","/","p","n","g">>, MaxImageBytes + 1, <<"d","a","t","a",":","o">>)
Document == File(<<"a","p","p","l","i","c","a","t","i","o","n","/","p","d","f">>, 1, <<"d","a","t","a",":","d">>)
UntypedFile == File(<<>>, 1, <<"d","a","t","a",":","u">>)
FileInputs == {SmallImage, LargestImage, OversizedImage, Document, UntypedFile}

setImageError(message) == errors' = [errors EXCEPT !.profileImage = message]

\* handleImageUpload with a size test that excludes the limit
handleImageUpload_Exclusive(file) ==
    /\ file # fileInput
    /\ fileInput' = file
    /\ IF file = Null THEN UNCHANGED <<errors, readers>>
       ELSE IF ~StartsWith(file.type, <<"i","m","a","g","e","/">>)
       THEN setImageError("Please select a valid image file") /\ UNCHANGED readers
       ELSE IF file.size >= MaxImageBytes
       THEN setImageError("Image size must be less than 5MB") /\ UNCHANGED readers
       ELSE readers' = readers \cup {file} /\ UNCHANGED errors
    /\ callNoHandler
    /\ callNothing
    /\ UNCHANGED <<initialData, formData, isSubmitting, isValidatingEmail,
                   emailValidationResult, imagePreview, timeoutId, timers, validations,
                   controllerVars>>

\* handleImageUpload whose rejections also empty the stored image reference
handleImageUpload_Discarding(file) ==
    /\ file # fileInput
    /\ fileInput' = file
    /\ IF file = Null THEN UNCHANGED <<errors, readers, formData>>
       ELSE IF ~StartsWith(file.type, <<"i","m","a","g","e","/">>) \/ file.size > MaxImageBytes
       THEN /\ setImageError("Please select a valid image file")
            /\ formData' = [formData EXCEPT !.profileImage = <<>>]
            /\ UNCHANGED readers
       ELSE readers' = readers \cup {file} /\ UNCHANGED <<errors, formData>>
    /\ callNoHandler
    /\ callNothing
    /\ UNCHANGED <<initialData, isSubmitting, isValidatingEmail, emailValidationResult,
                   imagePreview, timeoutId, timers, validations, controllerVars>>

\* the change event of the file input: the selection became file, or nothing
\* when the dialog was cancelled
handleImageUpload(file) ==
    /\ file # fileInput
    /\ fileInput' = file
    /\ IF file = Null THEN UNCHANGED <<errors, readers>>
       ELSE IF ~StartsWith(file.type, <<"i","m","a","g","e","/">>)
       THEN setImageError("Please select a valid image file") /\ UNCHANGED readers
       ELSE IF file.size > MaxImageBytes
       THEN setImageError("Image size must be less than 5MB") /\ UNCHANGED readers
       ELSE readers' = readers \cup {file} /\ UNCHANGED errors
    /\ callNoHandler
    /\ callNothing
    /\ UNCHANGED <<initialData, formData, isSubmitting, isValidatingEmail,
                   emailValidationResult, imagePreview, timeoutId, timers, validations,
                   controllerVars>>

\* reader.onload for a file that was being read
readerOnload(file) ==
    /\ file \in readers
    /\ readers' = readers \ {file}
    /\ imagePreview' = Str(file.url)
    /\ formData' = [formData EXCEPT !.profileImage = file.url]
    /\ setImageError(NoError)
    /\ callNoHandler
    /\ callNothing
    /\ UNCHANGED <<initialData, isSubmitting, isValidatingEmail, emailValidationResult,
                   timeoutId, timers, validations, fileInput, controllerVars>>

\* the Remove button, rendered while there is a preview
removeImage ==
    /\ ~Falsy(imagePreview)
    /\ imagePreview' = Null
    /\ formData' = [formData EXCEPT !.profileImage = <<>>]
    /\ setImageError(NoError)
    /\ callNoHandler
    /\ callNothing
    /\ UNCHANGED <<initialData, isSubmitting, isValidatingEmail, emailValidationResult,
                   timeoutId, timers, validations, imageVars, controllerVars>>

ImageNext ==
    \/ \E file \in FileInputs \cup {Null} : handleImageUpload(file)
    \/ \E file \in readers : readerOnload(file)
    \/ removeImage

ImageSpec == EditorInit /\ [][ImageNext]_vars

\* an image type and at most 5 MiB
Acceptable(file) ==
    /\ StartsWith(file.type, <<"i","m","a","g","e","/">>)
    /\ file.size <= 5 * 1024 * 1024

\* the file is the stored image reference or the preview
Stored(file) == formData.profileImage = file.url \/ imagePreview = Str(file.url)

\* a step in which the file input changed to a file
FileChosen == fileInput' # fileInput /\ fileInput' # Null

\* C15: a chosen file is accepted, and once read becomes the stored image
\* reference and the preview with the image error cleared, only if its media
\* type is an image type and its size is at most 5 MiB, the limit included;
\* any other file sets the image error and is never stored.
C15_ImageAcceptance ==
    /\ [](\A file \in FileInputs : ~Acceptable(file) => file \notin readers /\ ~Stored(file))
    /\ [][FileChosen =>
            IF Acceptable(fileInput')
            THEN fileInput' \in readers' /\ errors' = errors
            ELSE /\ errors'.profileImage # NoError
                 /\ readers' = readers]_vars
    /\ [][\A file \in readers : file \notin readers' =>
            /\ formData'.profileImage = file.url
            /\ imagePreview' = Str(file.url)
            /\ errors'.profileImage = NoError]_vars

\* the image of exactly 5 MiB was chosen, read and stored
C15_Witness ==
    /\ fileInput = LargestImage
    /\ formData.profileImage = LargestImage.url
    /\ imagePreview = Str(LargestImage.url)
    /\ errors.profileImage = NoError
    /\ readers = {}

\* a step in which a file was rejected while an image was stored
RejectedReplacement ==
    /\ FileChosen
    /\ ~Acceptable(fileInput')
    /\ formData.profileImage # <<>>

\* C16 as stated: a rejected replacement discards the image selected before:
\* after it the stored image reference no longer holds the prior image.
C16_AsStated ==
    [][RejectedReplacement => formData'.profileImage # formData.profileImage]_vars

\* C16, amended: a rejected replacement sets the image error and leaves the
\* stored image reference and the preview as they were.
C16_PriorImageKept ==
    [][RejectedReplacement =>
        /\ errors'.profileImage # NoError
        /\ formData' = formData
        /\ imagePreview' = imagePreview]_vars

\* a document was rejected while the small image, accepted before, is stored
C16_Witness ==
    /\ fileInput = Document
    /\ errors.profileImage = "Please select a valid image file"
    /\ formData.profileImage = SmallImage.url
    /\ imagePreview = Str(SmallImage.url)

\* ---------------------------------------------------------------------------
\* The list of the dashboard (StudentList) under a loaded controller
\* ---------------------------------------------------------------------------

\* s.includes(part)
Includes(s, part) ==
    \E i \in 0..(Len(s) - Len(part)) : SubSeq(s, i + 1, i + Len(part)) = part

\* the filter callback with a search that is not lower-cased
matchesFilters_CaseSensitive(student, search, status, course) ==
    /\ \/ search = <<>>
       \/ Includes(ToLowerCase(Get(student, K.name).v), search)
       \/ Includes(ToLowerCase(Get(student, K.email).v), search)
    /\ status = AllFilter \/ Get(student, K.status) = Str(status)
    /\ course = AllFilter \/ Get(student, K.course) = Str(course)

\* the callback of students.filter in filteredStudents
matchesFilters(student, search, status, course) ==
    /\ \/ search = <<>>
       \/ Includes(ToLowerCase(Get(student, K.name).v), ToLowerCase(search))
       \/ Includes(ToLowerCase(Get(student, K.email).v), ToLowerCase(search))
    /\ status = AllFilter \/ Get(student, K.status) = Str(status)
    /\ course = AllFilter \/ Get(student, K.course) = Str(course)

filteredStudents(records, search, status, course) ==
    LET matches(student) == matchesFilters(student, search, status, course)
    IN  Arr(SelectSeq(records.v, matches))

\* the courses offered by the course filter: those of the records
availableCourses(records) == {Get(records.v[i], K.course).v : i \in 1..Len(records.v)}

\* what the list renders: one of its two empty states, or the rows in the
\* view mode
ListView(records, search, status, course, mode) ==
    IF Len(records.v) = 0 THEN "No Students Yet"
    ELSE IF Len(filteredStudents(records, search, status, course).v) = 0
    THEN "No Students Found"
    ELSE mode

\* the records the list is given: sequences of at most MaxRecords of these
ListedStudents ==
    <<StudentLiteral(<<"1">>, <<"A", "l">>, <<"a", "@", "b", ".", "c", "o">>, CourseName.cs,
                     <<>>, <<"2", "0", "2", "4">>, Status.active),
      StudentLiteral(<<"2">>, <<"B", "o", "-", "b">>, <<"b", "@", "c", ".", "d", "e">>,
                     CourseName.ds, <<>>, <<"2", "0", "2", "4">>, Status.graduated),
      StudentLiteral(<<"3">>, <<"C", "a", "l">>, <<"c", "@", "b", ".", "c", "o">>,
                     CourseName.cs, <<>>, <<"2", "0", "2", "5">>, Status.inactive)>>

\* the search terms typed: one matching in capitals, one matching an email,
\* one matching nothing
SearchInputs == {<<>>, <<"A", "L">>, <<"@", "c">>, <<"z", "z">>}

ListInit ==
    /\ hasWindow = TRUE
    /\ \E records \in SeqsUpTo(ListedStudents, MaxRecords) :
          /\ students = Arr(records)
          /\ storage = Str(JSON_stringify(Arr(records)))
    /\ last = NoCall
    /\ saved = NothingSaved
    /\ NoDemo
    /\ loading = FALSE
    /\ error = NoError
    /\ courses = mockCourses
    /\ editingStudent = Null
    /\ activeTab = "list"
    /\ now = ClockStart
    /\ lastOp = NoOp
    /\ mutations = 0
    /\ quotaExceeded = FALSE
    /\ NoFilters
    /\ NoEditor

\* a list handler that makes the rows it shows the record array
listHandler_Saving ==
    /\ Rendered /\ activeTab = "list"
    /\ Len(students.v) > 0
    /\ lastOp' = NoOp
    /\ last' = NoCall
    /\ students' = Arr(<<>>)
    /\ storage' = Null
    /\ UNCHANGED <<hasWindow, saved, loading, error, courses, editingStudent, activeTab, now,
                   mutations, quotaExceeded, editorVars, demoVars>>

\* a handler of the list that changes only the list's own state
listHandler ==
    /\ Rendered /\ activeTab = "list"
    /\ Len(students.v) > 0
    /\ lastOp' = NoOp
    /\ callNothing
    /\ UNCHANGED <<loading, error, students, courses, editingStudent, activeTab, now, mutations,
                   quotaExceeded, editorVars>>

handleSearchChange(value) ==
    /\ listHandler
    /\ searchTerm' = value
    /\ UNCHANGED <<statusFilter, courseFilter, viewMode>>

handleStatusFilterChange(value) ==
    /\ listHandler
    /\ statusFilter' = value
    /\ UNCHANGED <<searchTerm, courseFilter, viewMode>>

handleCourseFilterChange(value) ==
    /\ listHandler
    /\ value \in {AllFilter} \cup availableCourses(students)
    /\ courseFilter' = value
    /\ UNCHANGED <<searchTerm, statusFilter, viewMode>>

clearFilters ==
    /\ listHandler
    /\ searchTerm' = <<>>
    /\ statusFilter' = AllFilter
    /\ courseFilter' = AllFilter
    /\ UNCHANGED viewMode

setViewMode(mode) ==
    /\ listHandler
    /\ viewMode' = mode
    /\ UNCHANGED <<searchTerm, statusFilter, courseFilter>>

\* the delete button of a row that is shown
onDelete(row) ==
    /\ row \in 1..Len(students.v)
    /\ matchesFilters(students.v[row], searchTerm, statusFilter, courseFilter)
    /\ DeleteStudent(row)

ListNext ==
    \/ \E value \in SearchInputs : handleSearchChange(value)
    \/ \E value \in {AllFilter, Status.active, Status.inactive, Status.graduated} :
          handleStatusFilterChange(value)
    \/ \E value \in {AllFilter} \cup availableCourses(students) :
          handleCourseFilterChange(value)
    \/ clearFilters
    \/ \E mode \in {"table", "cards"} : setViewMode(mode)
    \/ \E row \in 1..Len(students.v) : onDelete(row)

ListSpec == ListInit /\ [][ListNext]_vars

\* the part occurs in s when letter-casing is ignored
OccursIgnoringCase(part, s) ==
    \E from \in 1..(Len(s) + 1), to \in 0..Len(s) :
        /\ to - from + 1 = Len(part)
        /\ \A i \in 1..Len(part) : ToLowerChar(s[from + i - 1]) = ToLowerChar(part[i])

\* the record passes the search, the status filter and the course filter
PassesFilters(student) ==
    /\ \/ searchTerm = <<>>
       \/ OccursIgnoringCase(searchTerm, Get(student, K.name).v)
       \/ OccursIgnoringCase(searchTerm, Get(student, K.email).v)
    /\ statusFilter = AllFilter \/ Get(student, K.status).v = statusFilter
    /\ courseFilter = AllFilter \/ Get(student, K.course).v = courseFilter

\* the rows and the view of the list in this state
Shown == filteredStudents(students, searchTerm, statusFilter, courseFilter).v
View == ListView(students, searchTerm, statusFilter, courseFilter, viewMode)

\* C17: the filtered subset is the records of the full set, in their order,
\* that pass all three filters (the search is empty or occurs in the name or
\* the email ignoring case; the status and course filters are "all" or equal
\* the record's); filters that match nothing on a non-empty set give the
\* no-match state, and the no-records state is shown exactly when the set is
\* empty.
C17_FilteredSubset ==
    /\ Shown = SelectSeq(students.v, PassesFilters)
    /\ View = "No Students Yet" <=> students.v = <<>>
    /\ View = "No Students Found" <=> (students.v # <<>> /\ Shown = <<>>)

\* a search in capitals, with a status filter, shows one of two records
C17_Witness ==
    /\ searchTerm = <<"A", "L">>
    /\ statusFilter = Status.inactive
    /\ Len(students.v) = 2
    /\ Len(Shown) = 1
    /\ Get(Shown[1], K.name) = Str(<<"C", "a", "l">>)

\* some record of the full record set has the course
CourseOfSomeRecord(course) ==
    \E i \in 1..Len(students.v) : Get(students.v[i], K.course) = Str(course)

\* C30: after any filter selections and deletions in the list, the selected
\* course filter is "all" or the course of at least one record of the full
\* record set, one of the options the course selector offers.
C30_AsStated == courseFilter = AllFilter \/ CourseOfSomeRecord(courseFilter)

\* what holds of the course filter: it is "all" or a course of the records the
\* list was given at first, and it is changed only by the selector, to one of
\* its options, and by clearFilters
C30_FilterOnceOffered ==
    /\ [](courseFilter = AllFilter
            \/ \E i \in 1..Len(ListedStudents) :
                  Get(ListedStudents[i], K.course) = Str(courseFilter))
    /\ [][courseFilter' # courseFilter =>
            /\ students' = students
            /\ courseFilter' = AllFilter \/ CourseOfSomeRecord(courseFilter')]_vars

\* ---------------------------------------------------------------------------
\* Initialization of the dashboard
\* ---------------------------------------------------------------------------

\* the dashboard with a run of loadInitialData that is not left waiting for
\* ever: its timer and the promise of getCourses settle
LoadingSpec ==
    Spec /\ WF_vars(\E coursesOk \in BOOLEAN, fails \in BOOLEAN : LoadFinish(coursesOk, fails))

\* a step that ends a run of loadInitialData
LoadEnds == loading /\ ~loading'

\* the error panel is shown
ErrorState == ~loading /\ error # NoError

\* C19: every run of the initialization ends, with loading false, either loaded
\* (the course fetch succeeded, then the records were read: no error, the
\* records are what getStudents() returned) or in the error state (error
\* set, no records read or loaded); the error state offers only the retry,
\* which clears the error and runs the initialization again.
C19_Initialization ==
    /\ [][LoadEnds =>
            \/ /\ error' = NoError
               /\ courses' = mockCourses
               /\ last'.op = "get"
               /\ students' = last'.completion.value
            \/ /\ error' # NoError
               /\ last'.op = NoCall.op
               /\ students' = students]_vars
    /\ [](loading => error = NoError)
    /\ [](ErrorState => students = Arr(<<>>) /\ courses = <<>>)
    /\ [][ErrorState => loading' /\ error' = NoError /\ students' = students]_vars
    /\ loading ~> ~loading

\* a run of the initialization has read and loaded the one record of the
\* earlier session
C19_Witness ==
    /\ Rendered
    /\ mutations = 0
    /\ last.op = "get"
    /\ storage = EarlierSession
    /\ Len(students.v) = 1
    /\ courses = mockCourses

\* ---------------------------------------------------------------------------
\* Who changes the record array: the loaded dashboard with its list, and the
\* editor on its own, with every handler that is not a callback of the
\* controller
\* ---------------------------------------------------------------------------

\* the editor is rendered outside a dashboard
Standalone == loading /\ now = 0

\* either a loaded dashboard of two records showing its list, or a blank
\* editor on its own
FrameInit ==
    \/ ListInit /\ students = Arr(SubSeq(ListedStudents, 1, 2))
    \/ EditorInit /\ initialData = Null

\* the handlers of the list, the navigation (with the filters as a mounted
\* list has them) and the callbacks of the controller; the handlers of the
\* editor, with its image, on its own
FrameNext ==
    \/ \E value \in {<<>>, <<"z", "z">>} : handleSearchChange(value)
    \/ \E value \in {AllFilter, Status.active} : handleStatusFilterChange(value)
    \/ \E value \in {AllFilter, CourseName.cs} : handleCourseFilterChange(value)
    \/ clearFilters
    \/ \E mode \in {"table", "cards"} : setViewMode(mode)
    \/ \E row \in 1..Len(students.v) : onDelete(row)
    \/ NoFilters /\ \E tab \in Tabs : TabChange(tab)
    \/ NoFilters /\ \E row \in 1..Len(students.v) : StartEditing(row)
    \/ CancelEditing
    \/ \E time \in ClockStart..(ClockStart + MaxClockSteps) : SubmitCreate(FormInputs[1], time)
    \/ SubmitUpdate(FormInputs[1])
    \/ Standalone /\ handleInputChange("name", <<"A", "l">>)
    \/ Standalone /\ \E value \in {<<"a", "@", "b">>, <<"a", "@", "b", ".", "c", "o">>} :
                        handleInputChange("email", value)
    \/ Standalone /\ handleSelectChange("course", CourseName.cs)
    \/ Standalone /\ validateEmailAsync(MaxDelayMs)
    \/ Standalone /\ \E i \in 1..Len(validations) : validateEmailResolves(i)
    \/ Standalone /\ Tick
    \/ Standalone /\ handleSubmit
    \/ Standalone /\ onSubmitResolves
    \/ Standalone /\ onSubmitRejects
    \/ Standalone /\ \E file \in {SmallImage, Document} : handleImageUpload(file)
    \/ Standalone /\ \E file \in readers : readerOnload(file)
    \/ Standalone /\ removeImage

FrameSpec == FrameInit /\ [][FrameNext]_vars

\* a step that changes the record array or the persisted snapshot
RecordsChange == students' # students \/ storage' # storage

\* C20: the record array and the persisted snapshot are changed only by the
\* create, update and delete callbacks of the controller: typing, validation,
\* image selection and removal, the debounced check and its late resolution,
\* filter and view-mode changes, navigation and cancel leave both as they are.
C20_OnlyCallbacksChangeRecords ==
    [][RecordsChange => lastOp'.op \in {"create", "update", "delete"}]_vars

\* the list is searched and shown as cards, with the two records and their
\* snapshot as they were loaded
C20_Witness ==
    /\ searchTerm = <<"z", "z">>
    /\ viewMode = "cards"
    /\ mutations = 0
    /\ students = Arr(SubSeq(ListedStudents, 1, 2))
    /\ storage = Str(JSON_stringify(students))

\* ---------------------------------------------------------------------------
\* The image error of the editor under field changes and submissions
\* ---------------------------------------------------------------------------

\* a step that clears the image error
ImageErrorCleared == errors.profileImage # NoError /\ errors'.profileImage = NoError

\* the file chosen last, accepted, has been read in this step
AcceptedUploadLoads == fileInput \in readers /\ readerOnload(fileInput)

\* C28: while the image error is set the form cannot be submitted, a name,
\* email, course or status change keeps the error, and the only steps that
\* clear it are the loading of an image accepted after the rejection and the
\* remove-image action, which needs an image preview.
C28_AsStated ==
    /\ [](errors.profileImage # NoError => ~ENABLED handleSubmit)
    /\ [][ImageErrorCleared => (AcceptedUploadLoads \/ (~Falsy(imagePreview) /\ removeImage))]_vars

\* the image error outside a submission: while no call of onSubmit is pending
\* the statement holds, also counting an image chosen before the rejection
C28_OutsideSubmission ==
    /\ [](errors.profileImage # NoError => ~ENABLED handleSubmit)
    /\ [][(ImageErrorCleared /\ ~submission.pending) =>
            ((\E file \in readers : readerOnload(file)) \/ (~Falsy(imagePreview) /\ removeImage))]_vars

\* ---------------------------------------------------------------------------
\* The event-loop demonstrations: demonstrateEventLoop of AsyncPatternsDemo
\* and of the dashboard, statement by statement, on the event loop of the
\* window (one task at a time, the microtask queue emptied after every task,
\* timers run in the order the HTML timer rules allow)
\* ---------------------------------------------------------------------------

\* how much time passes in one step, in milliseconds
DemoTickMs == 10

\* how many times loadInitialData runs (the mount and a retry)
MaxLoads == 2

\* a statement: what it does, its argument, its delay and its callback
Instr(do, arg, ms, cb) == [do |-> do, arg |-> arg, ms |-> ms, cb |-> cb]

addLog(message) == Instr("addLog", message, 0, <<>>)
console_log(message) == Instr("console.log", message, 0, <<>>)
clearLogs == Instr("clearLogs", "", 0, <<>>)
setIsRunning(value) == Instr("setIsRunning", value, 0, <<>>)
\* Promise.resolve().then(cb)
then(cb) == Instr("then", "", 0, cb)
queueMicrotask(cb) == Instr("queueMicrotask", "", 0, cb)
setTimeout(cb, ms) == Instr("setTimeout", "", ms, cb)
\* await new Promise((resolve) => setTimeout(resolve, ms))
awaitTimeout(ms) == Instr("await", "", ms, <<>>)
\* resolve() of an awaited promise: the rest of the function is a microtask
resolve(rest) == Instr("resolve", "", 0, rest)

\* demonstrateEventLoop of AsyncPatternsDemo; a message is named by its number
demonstrateEventLoop ==
    << setIsRunning("true"),
       clearLogs,
       addLog("start"),
       addLog("1"),
       then(<<addLog("3")>>),
       queueMicrotask(<<addLog("4")>>),
       setTimeout(<<addLog("5")>>, 0),
       setTimeout(<<addLog("6")>>, 10),
       addLog("2"),
       awaitTimeout(50),
       setIsRunning("false") >>

\* demonstrateEventLoop of the dashboard
page_demonstrateEventLoop ==
    << console_log("1"),
       setTimeout(<<console_log("3")>>, 0),
       then(<<console_log("2")>>),
       console_log("1.5") >>

\* a pending timer: its callback, its timeout and the time left until it is due
TimerTask(cb, timeout, left) == [cb |-> cb, timeout |-> timeout, left |-> left]

\* the i-th pending timer may run whenever it is due
Runnable_AnyDue(i) == macrotasks[i].left = 0

\* the i-th pending timer may run: it is due, and every timer set before it
\* with a timeout not longer than its own has run
Runnable(i) ==
    /\ macrotasks[i].left = 0
    /\ \A j \in 1..(i - 1) : macrotasks[j].timeout > macrotasks[i].timeout

\* no task is running and the microtask queue is empty: the next task may start
TaskBoundary == callStack = <<>> /\ microtasks = <<>>

\* a step of the demo leaves the rest of the program alone
demoStep ==
    /\ last' = NoCall
    /\ UNCHANGED <<hasWindow, storage, saved, controllerVars, editorVars>>

\* the running task executes its next statement
Execute ==
    /\ callStack # <<>>
    /\ LET instr == Head(callStack)
           rest == Tail(callStack)
       IN  /\ logs' = CASE instr.do = "addLog" -> Append(logs, instr.arg)
                        [] instr.do = "clearLogs" -> <<>>
                        [] OTHER -> logs
           /\ consoleLog' = IF instr.do = "console.log" THEN Append(consoleLog, instr.arg)
                            ELSE consoleLog
           /\ isRunning' = IF instr.do = "setIsRunning" THEN instr.arg = "true" ELSE isRunning
           /\ microtasks' = CASE instr.do \in {"then", "queueMicrotask", "resolve"} ->
                                    Append(microtasks, instr.cb)
                              [] OTHER -> microtasks
           /\ macrotasks' = CASE instr.do = "setTimeout" ->
                                    Append(macrotasks, TimerTask(instr.cb, instr.ms, instr.ms))
                              [] instr.do = "await" ->
                                    Append(macrotasks,
                                           TimerTask(<<resolve(rest)>>, instr.ms, instr.ms))
                              [] OTHER -> macrotasks
           /\ callStack' = IF instr.do = "await" THEN <<>> ELSE rest
    /\ demoStep

\* the oldest microtask runs once the running task has ended
RunMicrotask ==
    /\ callStack = <<>>
    /\ microtasks # <<>>
    /\ callStack' = Head(microtasks)
    /\ microtasks' = Tail(microtasks)
    /\ UNCHANGED <<logs, isRunning, consoleLog, macrotasks>>
    /\ demoStep

\* the callback of the i-th pending timer runs as the next task
RunTimer(i) ==
    /\ TaskBoundary
    /\ i \in 1..Len(macrotasks)
    /\ Runnable(i)
    /\ callStack' = macrotasks[i].cb
    /\ macrotasks' = SubSeq(macrotasks, 1, i - 1) \o SubSeq(macrotasks, i + 1, Len(macrotasks))
    /\ UNCHANGED <<logs, isRunning, consoleLog, microtasks>>
    /\ demoStep

\* time passes, whether or not a timer is already due
DemoTick ==
    /\ \E i \in 1..Len(macrotasks) : macrotasks[i].left > 0
    /\ macrotasks' = [i \in 1..Len(macrotasks) |->
                        TimerTask(macrotasks[i].cb, macrotasks[i].timeout,
                                  IF macrotasks[i].left > DemoTickMs
                                  THEN macrotasks[i].left - DemoTickMs ELSE 0)]
    /\ UNCHANGED <<logs, isRunning, consoleLog, callStack, microtasks>>
    /\ demoStep

\* the Run Event Loop Demo button, disabled while a demo is running
ClickRunEventLoopDemo ==
    /\ TaskBoundary
    /\ ~isRunning
    /\ callStack' = demonstrateEventLoop
    /\ UNCHANGED <<logs, isRunning, consoleLog, microtasks, macrotasks>>
    /\ demoStep

\* the Clear Logs button, disabled while a demo is running
ClickClearLogs ==
    /\ TaskBoundary
    /\ ~isRunning
    /\ logs # <<>>
    /\ callStack' = <<clearLogs>>
    /\ UNCHANGED <<logs, isRunning, consoleLog, microtasks, macrotasks>>
    /\ demoStep

\* loadInitialData calls demonstrateEventLoop(): at mount, and at a retry, which
\* comes more than a second after the run before it
LoadInitialData ==
    /\ TaskBoundary
    /\ \A i \in 1..Len(macrotasks) : macrotasks[i].cb # <<console_log("3")>>
    /\ Cardinality({i \in 1..Len(consoleLog) : consoleLog[i] = "1"}) < MaxLoads
    /\ callStack' = page_demonstrateEventLoop
    /\ UNCHANGED <<logs, isRunning, consoleLog, microtasks, macrotasks>>
    /\ demoStep

DemoInit ==
    /\ hasWindow = TRUE
    /\ storage = Null
    /\ last = NoCall
    /\ saved = NothingSaved
    /\ NoDashboard
    /\ NoEditor
    /\ NoDemo

DemoNext ==
    \/ Execute
    \/ RunMicrotask
    \/ \E i \in 1..Len(macrotasks) : RunTimer(i)
    \/ DemoTick
    \/ ClickRunEventLoopDemo
    \/ ClickClearLogs
    \/ LoadInitialData

DemoSpec == DemoInit /\ [][DemoNext]_vars

\* the message is in the log
Recorded(log, message) == \E i \in 1..Len(log) : log[i] = message

\* if the later message is in the log, the earlier one is, at a lower position
Precedes(log, earlier, later) ==
    \A j \in 1..Len(log) : log[j] = later => \E i \in 1..(j - 1) : log[i] = earlier

\* the messages of the demo written by the handler itself, by its microtasks
\* and by its timers
SyncEntries == {"start", "1", "2"}
MicrotaskEntries == {"3", "4"}
TimerEntries == {"5", "6"}

\* what the dashboard's demonstrateEventLoop writes in one run: two
\* synchronous messages, the microtask's and the timer's
PageEntries == <<"1", "1.5", "2", "3">>

\* C24: in the event-loop demonstration the synchronous messages of the
\* handler are recorded before the message of any callback it scheduled, the
\* microtask messages (Promise.resolve().then, then queueMicrotask) before any
\* timer message, and the message of the 0 ms timer before that of the 10 ms
\* timer; the demo is marked not running only when all of them are recorded.
\* The dashboard's own demonstration writes to the console in the same order.
C24_EventLoopOrder ==
    /\ [](/\ \A s \in SyncEntries, d \in MicrotaskEntries \cup TimerEntries :
                Precedes(logs, s, d)
          /\ \A m \in MicrotaskEntries, t \in TimerEntries : Precedes(logs, m, t)
          /\ Precedes(logs, "3", "4")
          /\ Precedes(logs, "5", "6")
          /\ \A i \in 1..Len(consoleLog) :
                consoleLog[i] = PageEntries[((i - 1) % Len(PageEntries)) + 1])
    /\ [][(isRunning /\ ~isRunning') =>
            \A e \in SyncEntries \cup MicrotaskEntries \cup TimerEntries :
                Recorded(logs', e)]_vars
    /\ [](~isRunning => (logs = <<>> \/ Len(logs) = Cardinality(SyncEntries \cup MicrotaskEntries \cup TimerEntries)))

\* a run of the demo has ended with its seven messages recorded in order,
\* after the dashboard's demonstration wrote its four to the console
C24_Witness ==
    /\ ~isRunning
    /\ logs = <<"start", "1", "2", "3", "4", "5", "6">>
    /\ consoleLog = PageEntries
    /\ TaskBoundary
    /\ macrotasks = <<>>

\* ---------------------------------------------------------------------------
\* The statistics of the dashboard (studentStats)
\* ---------------------------------------------------------------------------

\* how many records the statistics are computed over at most
MaxCounted == 3

\* an entry [key, value] of the courseDistribution object
Entry(course, count) == [course |-> course, count |-> count]

RECURSIVE courseDistribution(_, _)
\* students.reduce(..., {}) from record i on: acc[student.course] is
\* incremented, a new key is added after the keys there are
courseDistribution(records, acc) ==
    IF records = <<>> THEN acc
    ELSE LET course == Get(Head(records), K.course).v
             next == IF \E i \in 1..Len(acc) : acc[i].course = course
                     THEN [i \in 1..Len(acc) |->
                             IF acc[i].course = course
                             THEN Entry(course, acc[i].count + 1) ELSE acc[i]]
                     ELSE Append(acc, Entry(course, 1))
         IN  courseDistribution(Tail(records), next)

RECURSIVE SortEntries(_, _, _)
\* entries.sort(([, a], [, b]) => sign * (b - a)): a stable sort, each entry
\* is inserted after the entries that do not compare greater than it
SortEntries(entries, sorted, sign) ==
    IF entries = <<>> THEN sorted
    ELSE LET e == Head(entries)
             compare(a, b) == sign * (b.count - a.count)
             before == {i \in 0..Len(sorted) :
                          \A j \in 1..Len(sorted) : j <= i <=> compare(sorted[j], e) <= 0}
             at == IF before = {} THEN Len(sorted) ELSE CHOOSE i \in before : TRUE
         IN  SortEntries(Tail(entries),
                         SubSeq(sorted, 1, at) \o <<e>> \o SubSeq(sorted, at + 1, Len(sorted)),
                         sign)

None == <<"N", "o", "n", "e">>

\* studentStats whose sort puts the smallest count first
studentStats_Ascending(records) ==
    LET distribution == courseDistribution(records.v, <<>>)
        sorted == SortEntries(distribution, <<>>, -1)
    IN  [total |-> Len(records.v),
         courseDistribution |-> distribution,
         mostPopularCourse |-> IF sorted = <<>> \/ sorted[1].course = <<>> THEN None
                               ELSE sorted[1].course]

studentStats(records) ==
    LET distribution == courseDistribution(records.v, <<>>)
        sorted == SortEntries(distribution, <<>>, 1)
    IN  [total |-> Len(records.v),
         courseDistribution |-> distribution,
         mostPopularCourse |-> IF sorted = <<>> \/ sorted[1].course = <<>> THEN None
                               ELSE sorted[1].course]

\* a record of each of three courses, and a second one of the first course
CountedStudents ==
    ListedStudents \o
    <<StudentLiteral(<<"4">>, <<"D", "i">>, <<"d", "@", "b", ".", "c", "o">>, CourseName.wd,
                     <<>>, <<"2", "0", "2", "5">>, Status.active)>>

\* the statistics of a record array, computed on their own
StudentStats(records) ==
    /\ last.op = NoCall.op
    /\ last' = Call("studentStats", Arr(records), FALSE, storage,
                    Return(studentStats(Arr(records))))
    /\ UNCHANGED <<hasWindow, storage, saved, controllerVars, editorVars, demoVars>>

\* the last call was studentStats
StatsComputed == last.op = "studentStats"

\* how many of the records have the course
CountOf(records, course) ==
    Cardinality({i \in 1..Len(records) : Get(records[i], K.course).v = course})

RECURSIVE SumOfCounts(_)
SumOfCounts(entries) ==
    IF entries = <<>> THEN 0 ELSE Head(entries).count + SumOfCounts(Tail(entries))

\* C18: total is the number of records; courseDistribution maps each course of
\* a record to the number of records with it, so its counts sum to total;
\* mostPopularCourse is a course of the largest count, the first of them in
\* the iteration order of the keys, and "None" without records; for courses
\* CS, CS, DS it is CS with the distribution {CS: 2, DS: 1}.
C18_StudentStats ==
    StatsComputed =>
        LET records == last.arg.v
            stats == last.completion.value
            entries == stats.courseDistribution
            keys == [i \in 1..Len(entries) |-> entries[i].course]
        IN  /\ stats.total = Len(records)
            /\ \A i, j \in 1..Len(keys) : keys[i] = keys[j] => i = j
            /\ {keys[i] : i \in 1..Len(keys)}
                    = {Get(records[i], K.course).v : i \in 1..Len(records)}
            /\ \A i \in 1..Len(entries) : entries[i].count = CountOf(records, keys[i])
            /\ SumOfCounts(entries) = stats.total
            /\ records = <<>> <=> stats.mostPopularCourse = None
            /\ records # <<>> =>
                    \E i \in 1..Len(entries) :
                        /\ stats.mostPopularCourse = keys[i]
                        /\ \A j \in 1..Len(entries) : entries[j].count <= entries[i].count
                        /\ \A j \in 1..(i - 1) : entries[j].count < entries[i].count
            /\ records = <<ListedStudents[1], ListedStudents[3], ListedStudents[2]>> =>
                    /\ stats.mostPopularCourse = CourseName.cs
                    /\ entries = <<Entry(CourseName.cs, 2), Entry(CourseName.ds, 1)>>

\* the statistics were computed for two records of one course after a record
\* of another: the most popular course is not the first key
C18_Witness ==
    /\ StatsComputed
    /\ last.arg.v = <<ListedStudents[2], ListedStudents[1], ListedStudents[3]>>
    /\ last.completion.value.mostPopularCourse = CourseName.cs
    /\ last.completion.value.total = 3

\* the pure functions, each called once on an input of its own
ValidatorNext ==
    \/ \E name \in NameStrings : ValidateName(name)
    \/ \E email \in EmailStrings : ValidateEmailFormat(email)
    \/ \E records \in SeqsUpTo(CountedStudents, MaxCounted) : StudentStats(records)

ValidatorSpec == ValidatorInit /\ [][ValidatorNext]_vars

====
